---------------------------- MODULE Spec2Model ----------------------------
(***************************************************************************)
(* Model of the three C analytics modules of the stock analyzer:           *)
(*   stock_span.c     calculateStockSpan                                   *)
(*   segment_tree.c   buildSegmentTree / querySegmentTree / freeSegmentTree*)
(*   sliding_window.c analyzeSlidingWindow / getWindowResult /             *)
(*                    freeWindowResult                                     *)
(* together with the heap they allocate from and the caller's variables    *)
(* that receive their results.                                             *)
(*                                                                         *)
(* A C double is a record [cls, n, d]: cls = "fin" for the finite value    *)
(* n/d (in lowest terms, d > 0), "inf" for +-infinity (sign in n), "nan"   *)
(* for not-a-number and "uninit" for storage never written.  The variable  *)
(* arith fixes how the result of a double operation is obtained: "real"    *)
(* keeps the exact result (the reading under which the tolerances of the   *)
(* tests are zero), "binary" rounds it to MantBits significant bits, ties  *)
(* to even, as IEEE-754 does with 53 bits.                                 *)
(***************************************************************************)
EXTENDS Integers, Sequences, FiniteSets, TLC

VARIABLES arith,    \* "real" or "binary": arithmetic of the double type
          prices,   \* the caller's price array (a sequence of doubles)
          live,     \* heap: the set of blocks malloc'ed and not yet freed
          trees,    \* contents of the live SegmentTree blocks, by handle
          results,  \* contents of the live WindowResult blocks, by handle
          gen,      \* number of calls that returned a block to the caller
          tree,     \* caller's void *tree
          win,      \* caller's void *result (window handle)
          spans,    \* caller's int *spans and the array it points to
          qout,     \* caller's doubles written by querySegmentTree
          wout,     \* caller's max/min/avg/pattern written by getWindowResult
          err,      \* caller's err_buf
          call,     \* the last call: operation, arguments, status, effects
          prev,     \* operation and status of the call before the last
          scan,     \* a calculateStockSpan call in progress: its loop state
          slide,    \* an analyzeSlidingWindow call in progress: its loop state
          readers   \* the querySegmentTree calls in progress, by thread

vars == <<arith, prices, live, trees, results, gen, tree, win, spans, qout, wout, err,
          call, prev, scan, slide, readers>>

\* the calls in progress and the record of the call before the last
inProgress == <<prev, scan, slide, readers>>

(***************************************************************************)
(* Bounds of the model.                                                    *)
(***************************************************************************)
MaxArgLen == 2    \* longest price array of the specification of all calls
MaxSpanLen == 5   \* longest price array given to calculateStockSpan alone
MaxTreeLen == 5   \* longest price array given to the segment tree alone
MaxWinLen == 4    \* longest price array given to the window analysis alone
MaxFpLen == 3     \* longest price array analysed in binary arithmetic
MaxReadLen == 3   \* longest price array of the concurrent queries
MaxRetries == 2   \* calls that return storage, where calls are repeated
MaxCalls == 1     \* calls per behaviour that return storage to the caller
NumThreads == 2   \* threads that query one tree at the same time
MantBits == 4     \* significand width of the "binary" arithmetic

(***************************************************************************)
(* Program constants.                                                      *)
(***************************************************************************)
MAX_ARRAY_SIZE == 10000000

(***************************************************************************)
(* The double type.                                                        *)
(***************************************************************************)
RECURSIVE Gcd(_, _)
Gcd(a, b) == IF b = 0 THEN a ELSE Gcd(b, a % b)

Abs(x) == IF x < 0 THEN -x ELSE x

Fin(n, d) ==
    LET s == IF d < 0 THEN -1 ELSE 1
        g == Gcd(Abs(n), Abs(d))
    IN  [cls |-> "fin", n |-> (s * n) \div g, d |-> (s * d) \div g]

Num(k) == [cls |-> "fin", n |-> k, d |-> 1]
NaN == [cls |-> "nan", n |-> 0, d |-> 1]
PosInf == [cls |-> "inf", n |-> 1, d |-> 1]
NegInf == [cls |-> "inf", n |-> -1, d |-> 1]
Uninit == [cls |-> "uninit", n |-> 0, d |-> 1]

isnan(x) == x.cls = "nan"
isinf(x) == x.cls = "inf"
IsFinite(x) == x.cls = "fin"

\* sign of a double that is not NaN: -1, 0 or 1
Sgn(x) == IF x.n < 0 THEN -1 ELSE IF x.n > 0 THEN 1 ELSE 0

\* a < b, a <= b, a > b, a >= b on doubles; every comparison with NaN is false
Lt(a, b) ==
    IF a.cls = "nan" \/ b.cls = "nan" THEN FALSE
    ELSE IF a.cls = "inf" THEN a.n < 0 /\ ~(b.cls = "inf" /\ b.n < 0)
    ELSE IF b.cls = "inf" THEN b.n > 0
    ELSE a.n * b.d < b.n * a.d
Le(a, b) ==
    IF a.cls = "nan" \/ b.cls = "nan" THEN FALSE
    ELSE IF a.cls = "inf" THEN a.n < 0 \/ (b.cls = "inf" /\ b.n > 0)
    ELSE IF b.cls = "inf" THEN b.n > 0
    ELSE a.n * b.d <= b.n * a.d
Gt(a, b) == Lt(b, a)
Ge(a, b) == Le(b, a)

Pow2(k) == IF k = 0 THEN 1 ELSE 2 ^ k

\* p/q (p >= 0, q > 0) rounded to the nearest integer, ties to the even one
RoundHalfEven(p, q) ==
    LET f == p \div q
        r == p % q
    IN  IF 2 * r < q THEN f
        ELSE IF 2 * r > q THEN f + 1
        ELSE IF f % 2 = 0 THEN f ELSE f + 1

\* least k >= 0 with p/(q * 2^k) < 2^MantBits
RECURSIVE ExpDown(_, _, _)
ExpDown(p, q, k) ==
    IF p < q * Pow2(k) * Pow2(MantBits) THEN k ELSE ExpDown(p, q, k + 1)

\* least k >= 0 with p * 2^k / q >= 2^(MantBits - 1)
RECURSIVE ExpUp(_, _, _)
ExpUp(p, q, k) ==
    IF p * Pow2(k) >= q * Pow2(MantBits - 1) THEN k ELSE ExpUp(p, q, k + 1)

\* the finite value x rounded to MantBits significant bits, ties to even
RoundToNearest(x) ==
    IF x.n = 0 THEN x
    ELSE LET p == Abs(x.n)
             q == x.d
             s == Sgn(x)
         IN  IF p >= q * Pow2(MantBits)
             THEN LET k == ExpDown(p, q, 0)
                  IN  Fin(s * RoundHalfEven(p, q * Pow2(k)) * Pow2(k), 1)
             ELSE LET k == ExpUp(p, q, 0)
                  IN  Fin(s * RoundHalfEven(p * Pow2(k), q), Pow2(k))

\* the result of one double operation whose exact value is x
Rnd(x) == IF arith = "binary" THEN RoundToNearest(x) ELSE x

\* exact sum, difference, product and quotient (b # 0) of rationals
QAdd(a, b) == Fin(a.n * b.d + b.n * a.d, a.d * b.d)
QSub(a, b) == Fin(a.n * b.d - b.n * a.d, a.d * b.d)
QMul(a, b) == Fin(a.n * b.n, a.d * b.d)
QDiv(a, b) == Fin(a.n * b.d, a.d * b.n)

\* a + b, a - b, a * b on finite doubles
FAdd(a, b) == Rnd(QAdd(a, b))
FSub(a, b) == Rnd(QSub(a, b))
FMul(a, b) == Rnd(QMul(a, b))

\* a / b on finite doubles: x/0 is +-infinity, 0/0 is NaN
FDiv(a, b) ==
    IF b.n = 0
    THEN IF a.n = 0 THEN NaN ELSE IF a.n > 0 THEN PosInf ELSE NegInf
    ELSE Rnd(QDiv(a, b))

\* fabs(x)
fabs(x) == IF x.cls \in {"fin", "inf"} THEN [x EXCEPT !.n = Abs(x.n)] ELSE x

\* C arrays are 0-based
At(a, i) == a[i + 1]

(***************************************************************************)
(* Heap blocks and handles.  The block that the call which will be the     *)
(* g-th to return storage allocates for the role r is <<g, r>>; a pointer  *)
(* is a block or NULL.                                                     *)
(***************************************************************************)
NULL == <<0, "null">>

Blk(g, r) == <<g, r>>

\* what a call may allocate a block for
Roles == {"spans", "stack", "stack.data", "tree", "tree.nodes", "result",
          "result.windows", "max_dq", "max_dq.indices", "min_dq",
          "min_dq.indices"}

\* malloc: the k-th malloc of a call fails when k is in fails
MallocOk(fails, k) == k \notin fails

\* content of a size_t slot never written
NoIndex == -1

\* the last call made, as the caller sees it; fields a call does not use are 0
NoCall ==
    [op |-> "none", ret |-> 0, nullarg |-> FALSE, length |-> 0,
     windowSize |-> 0, ql |-> 0, qr |-> 0, idx |-> 0, handle |-> NULL,
     mallocs |-> 0, failed |-> FALSE, ub |-> "none"]

\* no call before the last; no scan, no window analysis, no query in progress
NoPrev == [op |-> "none", ret |-> 0]
NoScan == [pc |-> "idle"]
NoSlide == [pc |-> "idle"]
NoQuery == [pc |-> "idle"]

\* the threads that call querySegmentTree
Threads == 1..NumThreads

\* The caller's output locals are declared anew for every call.  Until the
\* call writes them they hold no value; a call that fills them from freed
\* storage leaves them indeterminate as well.
QueryGarbage == [min |-> Uninit, max |-> Uninit, avg |-> Uninit, variance |-> Uninit]
WindowGarbage == [max |-> Uninit, min |-> Uninit, avg |-> Uninit, pattern |-> "?"]

\* Seeded fault: a rejected length is remembered, and the next call is
\* rejected for it as well.
InvalidLength_Sticky(length) ==
    length = 0 \/ length > MAX_ARRAY_SIZE \/ (call.op # "none" /\ call.ret = -2)

\* length == 0 || length > MAX_ARRAY_SIZE
InvalidLength(length) == length = 0 \/ length > MAX_ARRAY_SIZE

\* windowSize == 0 || windowSize > length
InvalidWindowSize(length, windowSize) == windowSize = 0 \/ windowSize > length

\* Seeded fault: the test ql > qr is missing.
InvalidRange_NoOrder(t, ql, qr) == qr >= t.length

\* ql > qr || qr >= tree->length
InvalidRange(t, ql, qr) == ql > qr \/ qr >= t.length

\* Seeded fault: the last window is out of bounds as well.
IndexOutOfBounds_LastToo(r, idx) == idx + 1 >= r.num_windows

\* idx >= result->num_windows
IndexOutOfBounds(r, idx) == idx >= r.num_windows

\* any element of prices[0..length-1] is NaN or infinite
HasInvalidPrice(p, length) ==
    \E i \in 0..(length - 1) : isnan(At(p, i)) \/ isinf(At(p, i))

(***************************************************************************)
(* stock_span.c                                                            *)
(***************************************************************************)
\* createStack after both of its allocations succeeded
createStack(capacity) ==
    [data |-> [k \in 0..(capacity - 1) |-> NoIndex], top |-> 0,
     capacity |-> capacity]

isEmpty(stack) == stack.top = 0

push(stack, value) ==
    [stack EXCEPT !.data[stack.top] = value, !.top = stack.top + 1]

pop(stack) == [stack EXCEPT !.top = stack.top - 1]

peek(stack) == stack.data[stack.top - 1]

\* Seeded fault: the pop loop compares with < and keeps equal prices stacked.
RECURSIVE SpanPopLoop_Strict(_, _, _)
SpanPopLoop_Strict(p, stack, i) ==
    IF ~isEmpty(stack) /\ Lt(At(p, peek(stack)), At(p, i))
    THEN SpanPopLoop_Strict(p, pop(stack), i)
    ELSE stack

\* while (!isEmpty(stack) && prices[peek(stack)] <= prices[i]) pop(stack);
RECURSIVE SpanPopLoop(_, _, _)
SpanPopLoop(p, stack, i) ==
    IF ~isEmpty(stack) /\ Le(At(p, peek(stack)), At(p, i))
    THEN SpanPopLoop(p, pop(stack), i)
    ELSE stack

\* Seeded fault: with an empty stack the span is i instead of i + 1.
SpanStep_EmptyGivesI(p, s) ==
    LET st == SpanPopLoop(p, s.stack, s.i)
        sp == IF isEmpty(st) THEN s.i ELSE s.i - peek(st)
    IN  [i |-> s.i + 1, stack |-> push(st, s.i), out |-> Append(s.out, sp)]

\* one iteration of the scan: s = [i, stack, out]
SpanStep(p, s) ==
    LET st == SpanPopLoop(p, s.stack, s.i)
        sp == IF isEmpty(st) THEN s.i + 1 ELSE s.i - peek(st)
    IN  [i |-> s.i + 1, stack |-> push(st, s.i), out |-> Append(s.out, sp)]

RECURSIVE SpanLoop(_, _, _)
SpanLoop(p, length, s) ==
    IF s.i < length THEN SpanLoop(p, length, SpanStep(p, s)) ELSE s

\* the spans of prices[0..length-1]
SpanScan(p, length) ==
    SpanLoop(p, length, [i |-> 0, stack |-> createStack(length), out |-> <<>>]).out

\* Seeded fault: the spans array is allocated before the validation loop, and
\* a call that the loop rejects returns with it.
calculateStockSpan_AllocFirst(nullPrices, nullOut, length, fails) ==
    LET c == [NoCall EXCEPT !.op = "span", !.length = length,
                            !.nullarg = nullPrices \/ nullOut]
        rest == /\ UNCHANGED <<arith, prices, trees, results, tree, win>>
                /\ qout' = QueryGarbage
                /\ wout' = WindowGarbage
        g == gen + 1
    IN  IF nullPrices \/ nullOut
        THEN /\ call' = [c EXCEPT !.ret = -1]
             /\ err' = "NULL pointer argument"
             /\ UNCHANGED <<live, gen, spans>>
             /\ rest
        ELSE IF InvalidLength(length)
        THEN /\ call' = [c EXCEPT !.ret = -2]
             /\ err' = "Invalid array length"
             /\ UNCHANGED <<live, gen, spans>>
             /\ rest
        ELSE IF HasInvalidPrice(prices, length)
        THEN /\ call' = [c EXCEPT !.ret = -4, !.mallocs = 1]
             /\ err' = "Invalid price value (NaN or infinite)"
             /\ live' = live \cup {Blk(g, "spans")}
             /\ spans' = [ptr |-> Blk(g, "spans"), data |-> <<>>]
             /\ UNCHANGED gen
             /\ rest
        ELSE IF ~MallocOk(fails, 1)
        THEN \* *out_spans = malloc(...) stored NULL
             /\ call' = [c EXCEPT !.ret = -3, !.mallocs = 1, !.failed = TRUE]
             /\ err' = "Memory allocation failed for spans array"
             /\ spans' = [ptr |-> NULL, data |-> <<>>]
             /\ UNCHANGED <<live, gen>>
             /\ rest
        ELSE IF ~MallocOk(fails, 2) \/ ~MallocOk(fails, 3)
        THEN \* createStack returned NULL: free(*out_spans); *out_spans = NULL
             /\ call' = [c EXCEPT !.ret = -3, !.failed = TRUE,
                           !.mallocs = IF MallocOk(fails, 2) THEN 3 ELSE 2]
             /\ err' = "Memory allocation failed for stack"
             /\ spans' = [ptr |-> NULL, data |-> <<>>]
             /\ UNCHANGED gen
             /\ LET stk == IF MallocOk(fails, 2) THEN {Blk(g, "stack")} ELSE {}
                IN  live' = ((live \cup {Blk(g, "spans")} \cup stk) \ stk)
                                \ {Blk(g, "spans")}
             /\ rest
        ELSE \* the scan, then freeStack(stack)
             /\ call' = [c EXCEPT !.ret = 0, !.mallocs = 3]
             /\ spans' = [ptr |-> Blk(g, "spans"), data |-> SpanScan(prices, length)]
             /\ live' = (live \cup {Blk(g, "spans"), Blk(g, "stack"),
                                    Blk(g, "stack.data")})
                            \ {Blk(g, "stack.data"), Blk(g, "stack")}
             /\ gen' = g
             /\ err' = ""
             /\ rest

\* calculateStockSpan(prices, length, &spans, err, sizeof err)
\*   nullPrices, nullOut: the pointer argument is NULL
\*   fails: the ordinals of the malloc calls that return NULL
calculateStockSpan(nullPrices, nullOut, length, fails) ==
    LET c == [NoCall EXCEPT !.op = "span", !.length = length,
                            !.nullarg = nullPrices \/ nullOut]
        rest == /\ UNCHANGED <<arith, prices, trees, results, tree, win>>
                /\ qout' = QueryGarbage
                /\ wout' = WindowGarbage
        g == gen + 1
    IN  IF nullPrices \/ nullOut
        THEN /\ call' = [c EXCEPT !.ret = -1]
             /\ err' = "NULL pointer argument"
             /\ UNCHANGED <<live, gen, spans>>
             /\ rest
        ELSE IF InvalidLength(length)
        THEN /\ call' = [c EXCEPT !.ret = -2]
             /\ err' = "Invalid array length"
             /\ UNCHANGED <<live, gen, spans>>
             /\ rest
        ELSE IF HasInvalidPrice(prices, length)
        THEN /\ call' = [c EXCEPT !.ret = -4]
             /\ err' = "Invalid price value (NaN or infinite)"
             /\ UNCHANGED <<live, gen, spans>>
             /\ rest
        ELSE IF ~MallocOk(fails, 1)
        THEN \* *out_spans = malloc(...) stored NULL
             /\ call' = [c EXCEPT !.ret = -3, !.mallocs = 1, !.failed = TRUE]
             /\ err' = "Memory allocation failed for spans array"
             /\ spans' = [ptr |-> NULL, data |-> <<>>]
             /\ UNCHANGED <<live, gen>>
             /\ rest
        ELSE IF ~MallocOk(fails, 2) \/ ~MallocOk(fails, 3)
        THEN \* createStack returned NULL: free(*out_spans); *out_spans = NULL
             /\ call' = [c EXCEPT !.ret = -3, !.failed = TRUE,
                           !.mallocs = IF MallocOk(fails, 2) THEN 3 ELSE 2]
             /\ err' = "Memory allocation failed for stack"
             /\ spans' = [ptr |-> NULL, data |-> <<>>]
             /\ UNCHANGED gen
             /\ LET stk == IF MallocOk(fails, 2) THEN {Blk(g, "stack")} ELSE {}
                IN  live' = ((live \cup {Blk(g, "spans")} \cup stk) \ stk)
                                \ {Blk(g, "spans")}
             /\ rest
        ELSE \* the scan, then freeStack(stack)
             /\ call' = [c EXCEPT !.ret = 0, !.mallocs = 3]
             /\ spans' = [ptr |-> Blk(g, "spans"), data |-> SpanScan(prices, length)]
             /\ live' = (live \cup {Blk(g, "spans"), Blk(g, "stack"),
                                    Blk(g, "stack.data")})
                            \ {Blk(g, "stack.data"), Blk(g, "stack")}
             /\ gen' = g
             /\ err' = ""
             /\ rest

(***************************************************************************)
(* segment_tree.c                                                          *)
(***************************************************************************)
TreeNode(mn, mx, sum, sum_sq, count) ==
    [min |-> mn, max |-> mx, sum |-> sum, sum_sq |-> sum_sq, count |-> count]

\* a TreeNode of malloc'ed storage never written
UninitNode ==
    [min |-> Uninit, max |-> Uninit, sum |-> Uninit, sum_sq |-> Uninit,
     count |-> NoIndex]

mergeNodes(left, right) ==
    [min |-> IF Lt(left.min, right.min) THEN left.min ELSE right.min,
     max |-> IF Gt(left.max, right.max) THEN left.max ELSE right.max,
     sum |-> FAdd(left.sum, right.sum),
     sum_sq |-> FAdd(left.sum_sq, right.sum_sq),
     count |-> left.count + right.count]

\* Seeded fault: sum_sq of a leaf is the price, not its square.
BuildLeaves_NoSquare(p, length) ==
    [k \in 0..(2 * length - 1) |->
        IF k >= length
        THEN TreeNode(At(p, k - length), At(p, k - length), At(p, k - length),
                      At(p, k - length), 1)
        ELSE UninitNode]

\* for (i = 0; i < length; i++) nodes[length + i] = leaf of prices[i]
BuildLeaves(p, length) ==
    [k \in 0..(2 * length - 1) |->
        IF k >= length
        THEN TreeNode(At(p, k - length), At(p, k - length), At(p, k - length),
                      FMul(At(p, k - length), At(p, k - length)), 1)
        ELSE UninitNode]

\* Seeded fault: an internal node merges its left child with itself.
RECURSIVE BuildInternal_LeftTwice(_, _)
BuildInternal_LeftTwice(nodes, i) ==
    IF i > 0
    THEN BuildInternal_LeftTwice(
             [nodes EXCEPT ![i] = mergeNodes(nodes[2 * i], nodes[2 * i])], i - 1)
    ELSE nodes

\* for (i = length - 1; i > 0; i--) nodes[i] = mergeNodes(&nodes[2i], &nodes[2i+1])
RECURSIVE BuildInternal(_, _)
BuildInternal(nodes, i) ==
    IF i > 0
    THEN BuildInternal([nodes EXCEPT ![i] = mergeNodes(nodes[2 * i], nodes[2 * i + 1])],
                       i - 1)
    ELSE nodes

\* the SegmentTree that buildSegmentTree fills in
BuildTree(p, length) ==
    [nodes |-> BuildInternal(BuildLeaves(p, length), length - 1),
     length |-> length,
     tree_size |-> 2 * length]

\* Seeded fault: the tree structure is not freed when the node array cannot
\* be allocated.
buildSegmentTree_LeaksTree(nullPrices, nullOut, length, fails) ==
    LET c == [NoCall EXCEPT !.op = "build", !.length = length,
                            !.nullarg = nullPrices \/ nullOut]
        rest == /\ UNCHANGED <<arith, prices, results, win, spans>>
                /\ qout' = QueryGarbage
                /\ wout' = WindowGarbage
        g == gen + 1
    IN  IF nullPrices \/ nullOut
        THEN /\ call' = [c EXCEPT !.ret = -1]
             /\ err' = "NULL pointer argument"
             /\ UNCHANGED <<live, trees, gen, tree>>
             /\ rest
        ELSE IF InvalidLength(length)
        THEN /\ call' = [c EXCEPT !.ret = -2]
             /\ err' = "Invalid array length"
             /\ UNCHANGED <<live, trees, gen, tree>>
             /\ rest
        ELSE IF HasInvalidPrice(prices, length)
        THEN /\ call' = [c EXCEPT !.ret = -4]
             /\ err' = "Invalid price value"
             /\ UNCHANGED <<live, trees, gen, tree>>
             /\ rest
        ELSE IF ~MallocOk(fails, 1)
        THEN /\ call' = [c EXCEPT !.ret = -3, !.mallocs = 1, !.failed = TRUE]
             /\ err' = "Memory allocation failed"
             /\ UNCHANGED <<live, trees, tree, gen>>
             /\ rest
        ELSE IF ~MallocOk(fails, 2)
        THEN /\ call' = [c EXCEPT !.ret = -3, !.mallocs = 2, !.failed = TRUE]
             /\ err' = "Memory allocation failed for tree nodes"
             /\ UNCHANGED gen
             /\ live' = live \cup {Blk(g, "tree")}
             /\ UNCHANGED <<trees, tree>>
             /\ rest
        ELSE /\ call' = [c EXCEPT !.ret = 0, !.mallocs = 2]
             /\ live' = live \cup {Blk(g, "tree"), Blk(g, "tree.nodes")}
             /\ trees' = [h \in DOMAIN trees \cup {Blk(g, "tree")} |->
                            IF h = Blk(g, "tree") THEN BuildTree(prices, length)
                            ELSE trees[h]]
             /\ tree' = Blk(g, "tree")
             /\ gen' = g
             /\ err' = ""
             /\ rest

\* buildSegmentTree(prices, length, &tree, err, sizeof err)
buildSegmentTree(nullPrices, nullOut, length, fails) ==
    LET c == [NoCall EXCEPT !.op = "build", !.length = length,
                            !.nullarg = nullPrices \/ nullOut]
        rest == /\ UNCHANGED <<arith, prices, results, win, spans>>
                /\ qout' = QueryGarbage
                /\ wout' = WindowGarbage
        g == gen + 1
    IN  IF nullPrices \/ nullOut
        THEN /\ call' = [c EXCEPT !.ret = -1]
             /\ err' = "NULL pointer argument"
             /\ UNCHANGED <<live, trees, gen, tree>>
             /\ rest
        ELSE IF InvalidLength(length)
        THEN /\ call' = [c EXCEPT !.ret = -2]
             /\ err' = "Invalid array length"
             /\ UNCHANGED <<live, trees, gen, tree>>
             /\ rest
        ELSE IF HasInvalidPrice(prices, length)
        THEN /\ call' = [c EXCEPT !.ret = -4]
             /\ err' = "Invalid price value"
             /\ UNCHANGED <<live, trees, gen, tree>>
             /\ rest
        ELSE IF ~MallocOk(fails, 1)
        THEN /\ call' = [c EXCEPT !.ret = -3, !.mallocs = 1, !.failed = TRUE]
             /\ err' = "Memory allocation failed"
             /\ UNCHANGED <<live, trees, tree, gen>>
             /\ rest
        ELSE IF ~MallocOk(fails, 2)
        THEN \* free(tree)
             /\ call' = [c EXCEPT !.ret = -3, !.mallocs = 2, !.failed = TRUE]
             /\ err' = "Memory allocation failed for tree nodes"
             /\ UNCHANGED gen
             /\ live' = (live \cup {Blk(g, "tree")}) \ {Blk(g, "tree")}
             /\ UNCHANGED <<trees, tree>>
             /\ rest
        ELSE /\ call' = [c EXCEPT !.ret = 0, !.mallocs = 2]
             /\ live' = live \cup {Blk(g, "tree"), Blk(g, "tree.nodes")}
             /\ trees' = [h \in DOMAIN trees \cup {Blk(g, "tree")} |->
                            IF h = Blk(g, "tree") THEN BuildTree(prices, length)
                            ELSE trees[h]]
             /\ tree' = Blk(g, "tree")
             /\ gen' = g
             /\ err' = ""
             /\ rest

\* DBL_MAX of <float.h>: a finite double above every value of the model
DBL_MAX == Num(1000000)

\* Seeded fault: right starts one leaf short of qr.
QueryStart_DropsLast(t, ql, qr) ==
    [left |-> ql + t.length, right |-> qr + t.length - 1,
     result |-> TreeNode(DBL_MAX, Num(-DBL_MAX.n), Num(0), Num(0), 0),
     first |-> TRUE]

\* Seeded fault: the two ends of the range are exchanged.
QueryStart_Swapped(t, ql, qr) ==
    [left |-> qr + t.length, right |-> ql + t.length,
     result |-> TreeNode(DBL_MAX, Num(-DBL_MAX.n), Num(0), Num(0), 0),
     first |-> TRUE]

\* the accumulator and indices of querySegmentTree before its loop
QueryStart(t, ql, qr) ==
    [left |-> ql + t.length, right |-> qr + t.length,
     result |-> TreeNode(DBL_MAX, Num(-DBL_MAX.n), Num(0), Num(0), 0),
     first |-> TRUE]

\* Seeded fault: the right end is merged when it is odd instead of even.
QueryStep_RightOdd(nodes, s) ==
    LET a == IF s.left % 2 = 1
             THEN [s EXCEPT !.result = IF s.first THEN nodes[s.left]
                                       ELSE mergeNodes(s.result, nodes[s.left]),
                            !.first = FALSE,
                            !.left = s.left + 1]
             ELSE s
        b == IF a.right % 2 = 1
             THEN [a EXCEPT !.result = IF a.first THEN nodes[a.right]
                                       ELSE mergeNodes(a.result, nodes[a.right]),
                            !.first = FALSE,
                            !.right = a.right - 1]
             ELSE a
    IN  [b EXCEPT !.left = b.left \div 2, !.right = b.right \div 2]

\* one iteration of while (left <= right) { ... }
QueryStep(nodes, s) ==
    LET a == IF s.left % 2 = 1
             THEN [s EXCEPT !.result = IF s.first THEN nodes[s.left]
                                       ELSE mergeNodes(s.result, nodes[s.left]),
                            !.first = FALSE,
                            !.left = s.left + 1]
             ELSE s
        b == IF a.right % 2 = 0
             THEN [a EXCEPT !.result = IF a.first THEN nodes[a.right]
                                       ELSE mergeNodes(a.result, nodes[a.right]),
                            !.first = FALSE,
                            !.right = a.right - 1]
             ELSE a
    IN  [b EXCEPT !.left = b.left \div 2, !.right = b.right \div 2]

RECURSIVE QueryLoop(_, _)
QueryLoop(nodes, s) ==
    IF s.left <= s.right THEN QueryLoop(nodes, QueryStep(nodes, s)) ELSE s

\* the four outputs computed from the accumulated node
QueryOutputs(result) ==
    LET mean == FDiv(result.sum, Num(result.count))
    IN  [min |-> result.min,
         max |-> result.max,
         avg |-> IF result.count > 0 THEN FDiv(result.sum, Num(result.count))
                 ELSE Num(0),
         variance |-> IF result.count > 0
                      THEN FSub(FDiv(result.sum_sq, Num(result.count)),
                                FMul(mean, mean))
                      ELSE Num(0)]

\* Seeded fault: the accumulated result is stored into the root node.
querySegmentTree_WritesRoot(handle, ql, qr) ==
    LET c == [NoCall EXCEPT !.op = "query", !.ql = ql, !.qr = qr,
                            !.handle = handle, !.nullarg = (handle = NULL)]
        keep == /\ UNCHANGED <<arith, prices, live, results, gen, tree, win, spans>>
                /\ wout' = WindowGarbage
        rest == keep /\ UNCHANGED trees
    IN  IF handle = NULL
        THEN /\ call' = [c EXCEPT !.ret = -1]
             /\ err' = "NULL tree handle"
             /\ qout' = QueryGarbage
             /\ rest
        ELSE IF handle \notin live
        THEN \/ /\ call' = [c EXCEPT !.ret = -2, !.ub = "use-after-free"]
                /\ err' = "Invalid query range"
                /\ qout' = QueryGarbage
                /\ rest
             \/ /\ call' = [c EXCEPT !.ret = 0, !.ub = "use-after-free"]
                /\ qout' = QueryGarbage
                /\ err' = ""
                /\ rest
        ELSE IF InvalidRange(trees[handle], ql, qr)
        THEN /\ call' = [c EXCEPT !.ret = -2]
             /\ err' = "Invalid query range"
             /\ qout' = QueryGarbage
             /\ rest
        ELSE /\ call' = [c EXCEPT !.ret = 0]
             /\ qout' = QueryOutputs(QueryLoop(trees[handle].nodes,
                                     QueryStart(trees[handle], ql, qr)).result)
             /\ err' = ""
             /\ trees' = [trees EXCEPT ![handle].nodes[1] =
                            QueryLoop(trees[handle].nodes,
                                      QueryStart(trees[handle], ql, qr)).result]
             /\ keep

\* querySegmentTree(tree, ql, qr, &min, &max, &avg, &variance, err, sizeof err)
\* The handle is never compared with the handles released: a non-NULL handle
\* is dereferenced.  On a released handle tree->length and the nodes are read
\* from freed storage, so the range test and the outputs are indeterminate.
querySegmentTree(handle, ql, qr) ==
    LET c == [NoCall EXCEPT !.op = "query", !.ql = ql, !.qr = qr,
                            !.handle = handle, !.nullarg = (handle = NULL)]
        rest == /\ UNCHANGED <<arith, prices, live, trees, results, gen, tree,
                              win, spans>>
                /\ wout' = WindowGarbage
    IN  IF handle = NULL
        THEN /\ call' = [c EXCEPT !.ret = -1]
             /\ err' = "NULL tree handle"
             /\ qout' = QueryGarbage
             /\ rest
        ELSE IF handle \notin live
        THEN \/ /\ call' = [c EXCEPT !.ret = -2, !.ub = "use-after-free"]
                /\ err' = "Invalid query range"
                /\ qout' = QueryGarbage
                /\ rest
             \/ /\ call' = [c EXCEPT !.ret = 0, !.ub = "use-after-free"]
                /\ qout' = QueryGarbage
                /\ err' = ""
                /\ rest
        ELSE IF InvalidRange(trees[handle], ql, qr)
        THEN /\ call' = [c EXCEPT !.ret = -2]
             /\ err' = "Invalid query range"
             /\ qout' = QueryGarbage
             /\ rest
        ELSE /\ call' = [c EXCEPT !.ret = 0]
             /\ qout' = QueryOutputs(QueryLoop(trees[handle].nodes,
                                     QueryStart(trees[handle], ql, qr)).result)
             /\ err' = ""
             /\ rest

\* freeSegmentTree(tree): free(tree->nodes); free(tree).  The caller's
\* variable keeps the released handle.  On a released handle tree->nodes is
\* read from freed storage and both blocks are freed a second time.
freeSegmentTree(handle) ==
    LET c == [NoCall EXCEPT !.op = "free", !.handle = handle,
                            !.nullarg = (handle = NULL)]
        rest == /\ UNCHANGED <<arith, prices, results, gen, tree, win, spans>>
                /\ qout' = QueryGarbage
                /\ wout' = WindowGarbage
                /\ err' = ""
    IN  IF handle = NULL
        THEN /\ call' = c
             /\ UNCHANGED <<live, trees>>
             /\ rest
        ELSE IF handle \notin live
        THEN /\ call' = [c EXCEPT !.ub = "double-free"]
             /\ UNCHANGED <<live, trees>>
             /\ rest
        ELSE /\ call' = c
             /\ live' = (live \ {Blk(handle[1], "tree.nodes")}) \ {handle}
             /\ trees' = [h \in DOMAIN trees \ {handle} |-> trees[h]]
             /\ rest

(***************************************************************************)
(* sliding_window.c                                                        *)
(***************************************************************************)
\* createDeque after both of its allocations succeeded
createDeque(capacity) ==
    [indices |-> [k \in 0..(capacity - 1) |-> NoIndex], front |-> 0,
     back |-> 0, capacity |-> capacity]

isEmptyDeque(dq) == dq.front = dq.back

pushBack(dq, idx) ==
    [dq EXCEPT !.indices[dq.back] = idx, !.back = (dq.back + 1) % dq.capacity]

popBack(dq) == [dq EXCEPT !.back = (dq.back - 1 + dq.capacity) % dq.capacity]

popFront(dq) == [dq EXCEPT !.front = (dq.front + 1) % dq.capacity]

front(dq) == dq.indices[dq.front]

back(dq) == dq.indices[(dq.back - 1 + dq.capacity) % dq.capacity]

\* a double literal of the source
Lit(n, d) == Rnd(Fin(n, d))

\* sqrt(variance) / fabs(mean) > 0.1, decided on the squares: sqrt of a
\* negative value is NaN, x/0 is +infinity for x > 0 and NaN for x = 0
CvAboveTenth(variance, mean) ==
    IF ~IsFinite(variance) \/ ~IsFinite(mean) THEN FALSE
    ELSE IF variance.n < 0 THEN FALSE
    ELSE IF mean.n = 0 THEN variance.n > 0
    ELSE 100 * variance.n * mean.d * mean.d > mean.n * mean.n * variance.d

\* Seeded fault: fabs is taken of the difference only, and the quotient keeps
\* the sign of first.
classifyPattern_SignedQuotient(first, last, variance, mean) ==
    LET change_pct == FDiv(fabs(FSub(last, first)), first)
    IN  IF Gt(change_pct, Lit(1, 20)) /\ Gt(last, first) THEN "bullish"
        ELSE IF Gt(change_pct, Lit(1, 20)) /\ Lt(last, first) THEN "bearish"
        ELSE IF CvAboveTenth(variance, mean) THEN "volatile"
        ELSE "stable"

classifyPattern(first, last, variance, mean) ==
    LET change_pct == fabs(FDiv(FSub(last, first), first))
    IN  IF Gt(change_pct, Lit(1, 20)) /\ Gt(last, first) THEN "bullish"
        ELSE IF Gt(change_pct, Lit(1, 20)) /\ Lt(last, first) THEN "bearish"
        ELSE IF CvAboveTenth(variance, mean) THEN "volatile"
        ELSE "stable"

\* Seeded fault: the back of the max deque is popped only for a strictly
\* smaller price, so equal prices stay queued.
RECURSIVE PopBackMax_Strict(_, _, _)
PopBackMax_Strict(p, dq, i) ==
    IF ~isEmptyDeque(dq) /\ Lt(At(p, back(dq)), At(p, i))
    THEN PopBackMax_Strict(p, popBack(dq), i)
    ELSE dq

\* while (!isEmpty(max_dq) && prices[back(max_dq)] <= prices[i]) popBack(max_dq);
RECURSIVE PopBackMax(_, _, _)
PopBackMax(p, dq, i) ==
    IF ~isEmptyDeque(dq) /\ Le(At(p, back(dq)), At(p, i))
    THEN PopBackMax(p, popBack(dq), i)
    ELSE dq

\* while (!isEmpty(min_dq) && prices[back(min_dq)] >= prices[i]) popBack(min_dq);
RECURSIVE PopBackMin(_, _, _)
PopBackMin(p, dq, i) ==
    IF ~isEmptyDeque(dq) /\ Ge(At(p, back(dq)), At(p, i))
    THEN PopBackMin(p, popBack(dq), i)
    ELSE dq

\* Seeded fault: the front is dropped only when it lies before out_idx, so
\* the index that has just left the window stays.
RECURSIVE PopFrontOut_Stale(_, _)
PopFrontOut_Stale(dq, out_idx) ==
    IF ~isEmptyDeque(dq) /\ front(dq) < out_idx
    THEN PopFrontOut_Stale(popFront(dq), out_idx)
    ELSE dq

\* while (!isEmpty(dq) && front(dq) <= out_idx) popFront(dq);
RECURSIVE PopFrontOut(_, _)
PopFrontOut(dq, out_idx) ==
    IF ~isEmptyDeque(dq) /\ front(dq) <= out_idx
    THEN PopFrontOut(popFront(dq), out_idx)
    ELSE dq

\* the WindowStats stored for the window that starts at i
WindowStats(p, windowSize, s, i) ==
    LET avg == FDiv(s.sum, Num(windowSize))
        variance == FSub(FDiv(s.sum_sq, Num(windowSize)), FMul(avg, avg))
    IN  [max |-> At(p, front(s.max_dq)),
         min |-> At(p, front(s.min_dq)),
         avg |-> avg,
         pattern |-> classifyPattern(At(p, i), At(p, i + windowSize - 1),
                                     variance, avg)]

\* one iteration of the loop over the first window: s = [i, sum, sum_sq, deques]
FirstWindowStep(p, s) ==
    [s EXCEPT !.i = s.i + 1,
              !.sum = FAdd(s.sum, At(p, s.i)),
              !.sum_sq = FAdd(s.sum_sq, FMul(At(p, s.i), At(p, s.i))),
              !.max_dq = pushBack(PopBackMax(p, s.max_dq, s.i), s.i),
              !.min_dq = pushBack(PopBackMin(p, s.min_dq, s.i), s.i)]

RECURSIVE FirstWindowLoop(_, _, _)
FirstWindowLoop(p, windowSize, s) ==
    IF s.i < windowSize THEN FirstWindowLoop(p, windowSize, FirstWindowStep(p, s))
    ELSE s

\* Seeded fault: the price that leaves the window is not subtracted from sum.
SlideStep_KeepsOutgoing(p, windowSize, s) ==
    LET out_idx == s.i - 1
        in_idx == s.i + windowSize - 1
        t == [s EXCEPT
                !.sum = FAdd(s.sum, At(p, in_idx)),
                !.sum_sq = FAdd(FSub(s.sum_sq, FMul(At(p, out_idx), At(p, out_idx))),
                                FMul(At(p, in_idx), At(p, in_idx))),
                !.max_dq = pushBack(PopBackMax(p, PopFrontOut(s.max_dq, out_idx),
                                               in_idx), in_idx),
                !.min_dq = pushBack(PopBackMin(p, PopFrontOut(s.min_dq, out_idx),
                                               in_idx), in_idx)]
    IN  [t EXCEPT !.i = s.i + 1,
                  !.windows = Append(s.windows, WindowStats(p, windowSize, t, s.i))]

\* one iteration of the slide loop, for the window that starts at s.i
SlideStep(p, windowSize, s) ==
    LET out_idx == s.i - 1
        in_idx == s.i + windowSize - 1
        t == [s EXCEPT
                !.sum = FAdd(FSub(s.sum, At(p, out_idx)), At(p, in_idx)),
                !.sum_sq = FAdd(FSub(s.sum_sq, FMul(At(p, out_idx), At(p, out_idx))),
                                FMul(At(p, in_idx), At(p, in_idx))),
                !.max_dq = pushBack(PopBackMax(p, PopFrontOut(s.max_dq, out_idx),
                                               in_idx), in_idx),
                !.min_dq = pushBack(PopBackMin(p, PopFrontOut(s.min_dq, out_idx),
                                               in_idx), in_idx)]
    IN  [t EXCEPT !.i = s.i + 1,
                  !.windows = Append(s.windows, WindowStats(p, windowSize, t, s.i))]

RECURSIVE SlideLoop(_, _, _, _)
SlideLoop(p, windowSize, num_windows, s) ==
    IF s.i < num_windows
    THEN SlideLoop(p, windowSize, num_windows, SlideStep(p, windowSize, s))
    ELSE s

\* the state of analyzeSlidingWindow after the first window was stored
FirstWindow(p, windowSize) ==
    LET s == FirstWindowLoop(p, windowSize,
                 [i |-> 0, sum |-> Num(0), sum_sq |-> Num(0),
                  max_dq |-> createDeque(windowSize + 1),
                  min_dq |-> createDeque(windowSize + 1),
                  windows |-> <<>>])
    IN  [s EXCEPT !.i = 1, !.windows = <<WindowStats(p, windowSize, s, 0)>>]

\* the WindowResult that analyzeSlidingWindow fills in
AnalyzeWindows(p, length, windowSize) ==
    LET num_windows == length - windowSize + 1
    IN  [windows |-> SlideLoop(p, windowSize, num_windows,
                               FirstWindow(p, windowSize)).windows,
         num_windows |-> num_windows,
         window_size |-> windowSize]

\* analyzeSlidingWindow(prices, length, windowSize, &result, err, sizeof err)
analyzeSlidingWindow(nullPrices, nullOut, length, windowSize, fails) ==
    LET c == [NoCall EXCEPT !.op = "analyze", !.length = length,
                            !.windowSize = windowSize,
                            !.nullarg = nullPrices \/ nullOut]
        rest == /\ UNCHANGED <<arith, prices, trees, tree, spans>>
                /\ qout' = QueryGarbage
                /\ wout' = WindowGarbage
        g == gen + 1
        \* createDeque(windowSize + 1) twice: the mallocs that follow the two
        \* of the result; a deque whose second malloc fails frees its first
        maxOrd == 3
        maxStruct == MallocOk(fails, maxOrd)
        maxOk == maxStruct /\ MallocOk(fails, maxOrd + 1)
        minOrd == IF maxStruct THEN maxOrd + 2 ELSE maxOrd + 1
        minStruct == MallocOk(fails, minOrd)
        minOk == minStruct /\ MallocOk(fails, minOrd + 1)
        nMallocs == IF minStruct THEN minOrd + 1 ELSE minOrd
        maxGot == (IF maxStruct THEN {Blk(g, "max_dq")} ELSE {})
                    \cup (IF maxOk THEN {Blk(g, "max_dq.indices")} ELSE {})
        minGot == (IF minStruct THEN {Blk(g, "min_dq")} ELSE {})
                    \cup (IF minOk THEN {Blk(g, "min_dq.indices")} ELSE {})
        res == {Blk(g, "result"), Blk(g, "result.windows")}
    IN  IF nullPrices \/ nullOut
        THEN /\ call' = [c EXCEPT !.ret = -1]
             /\ err' = "NULL pointer argument"
             /\ UNCHANGED <<live, results, gen, win>>
             /\ rest
        ELSE IF InvalidLength(length) \/ InvalidWindowSize(length, windowSize)
        THEN /\ call' = [c EXCEPT !.ret = -2]
             /\ err' = "Invalid length or window size"
             /\ UNCHANGED <<live, results, gen, win>>
             /\ rest
        ELSE IF HasInvalidPrice(prices, length)
        THEN /\ call' = [c EXCEPT !.ret = -4]
             /\ err' = "Invalid price value"
             /\ UNCHANGED <<live, results, gen, win>>
             /\ rest
        ELSE IF ~MallocOk(fails, 1)
        THEN /\ call' = [c EXCEPT !.ret = -3, !.mallocs = 1, !.failed = TRUE]
             /\ err' = "Memory allocation failed"
             /\ UNCHANGED <<live, results, win, gen>>
             /\ rest
        ELSE IF ~MallocOk(fails, 2)
        THEN \* free(result)
             /\ call' = [c EXCEPT !.ret = -3, !.mallocs = 2, !.failed = TRUE]
             /\ err' = "Memory allocation failed for windows"
             /\ UNCHANGED gen
             /\ live' = (live \cup {Blk(g, "result")}) \ {Blk(g, "result")}
             /\ UNCHANGED <<results, win>>
             /\ rest
        ELSE IF ~maxOk \/ ~minOk
        THEN \* freeDeque(max_dq); freeDeque(min_dq); free(result->windows);
             \* free(result)
             /\ call' = [c EXCEPT !.ret = -3, !.mallocs = nMallocs, !.failed = TRUE]
             /\ err' = "Memory allocation failed for deques"
             /\ UNCHANGED gen
             /\ live' = (((live \cup res \cup maxGot \cup minGot)
                            \ (IF maxOk THEN maxGot ELSE {}))
                            \ (IF minOk THEN minGot ELSE {}))
                            \ (((IF maxOk THEN {} ELSE maxGot)
                                  \cup (IF minOk THEN {} ELSE minGot)) \cup res)
             /\ UNCHANGED <<results, win>>
             /\ rest
        ELSE \* the analysis, then freeDeque(max_dq); freeDeque(min_dq)
             /\ call' = [c EXCEPT !.ret = 0, !.mallocs = 6]
             /\ live' = (live \cup res \cup maxGot \cup minGot) \ (maxGot \cup minGot)
             /\ results' = [h \in DOMAIN results \cup {Blk(g, "result")} |->
                              IF h = Blk(g, "result")
                              THEN AnalyzeWindows(prices, length, windowSize)
                              ELSE results[h]]
             /\ win' = Blk(g, "result")
             /\ gen' = g
             /\ err' = ""
             /\ rest

\* getWindowResult(result, idx, &max, &min, &avg, pattern, sizeof pattern,
\*                 err, sizeof err)
\* As in querySegmentTree, a non-NULL handle is dereferenced, released or not.
getWindowResult(handle, idx) ==
    LET c == [NoCall EXCEPT !.op = "get", !.idx = idx, !.handle = handle,
                            !.nullarg = (handle = NULL)]
        rest == /\ UNCHANGED <<arith, prices, live, trees, results, gen, tree,
                              win, spans>>
                /\ qout' = QueryGarbage
    IN  IF handle = NULL
        THEN /\ call' = [c EXCEPT !.ret = -1]
             /\ err' = "NULL window handle"
             /\ wout' = WindowGarbage
             /\ rest
        ELSE IF handle \notin live
        THEN \/ /\ call' = [c EXCEPT !.ret = -2, !.ub = "use-after-free"]
                /\ err' = "Window index out of bounds"
                /\ wout' = WindowGarbage
                /\ rest
             \/ /\ call' = [c EXCEPT !.ret = 0, !.ub = "use-after-free"]
                /\ wout' = WindowGarbage
                /\ err' = ""
                /\ rest
        ELSE IF IndexOutOfBounds(results[handle], idx)
        THEN /\ call' = [c EXCEPT !.ret = -2]
             /\ err' = "Window index out of bounds"
             /\ wout' = WindowGarbage
             /\ rest
        ELSE /\ call' = [c EXCEPT !.ret = 0]
             /\ wout' = At(results[handle].windows, idx)
             /\ err' = ""
             /\ rest

\* Seeded fault: free(result->windows) is missing.
freeWindowResult_LeaksWindows(handle) ==
    LET c == [NoCall EXCEPT !.op = "freeWindow", !.handle = handle,
                            !.nullarg = (handle = NULL)]
        rest == /\ UNCHANGED <<arith, prices, trees, gen, tree, win, spans>>
                /\ qout' = QueryGarbage
                /\ wout' = WindowGarbage
                /\ err' = ""
    IN  IF handle = NULL
        THEN /\ call' = c
             /\ UNCHANGED <<live, results>>
             /\ rest
        ELSE IF handle \notin live
        THEN /\ call' = [c EXCEPT !.ub = "double-free"]
             /\ UNCHANGED <<live, results>>
             /\ rest
        ELSE /\ call' = c
             /\ live' = live \ {handle}
             /\ results' = [h \in DOMAIN results \ {handle} |-> results[h]]
             /\ rest

\* freeWindowResult(result): free(result->windows); free(result)
freeWindowResult(handle) ==
    LET c == [NoCall EXCEPT !.op = "freeWindow", !.handle = handle,
                            !.nullarg = (handle = NULL)]
        rest == /\ UNCHANGED <<arith, prices, trees, gen, tree, win, spans>>
                /\ qout' = QueryGarbage
                /\ wout' = WindowGarbage
                /\ err' = ""
    IN  IF handle = NULL
        THEN /\ call' = c
             /\ UNCHANGED <<live, results>>
             /\ rest
        ELSE IF handle \notin live
        THEN /\ call' = [c EXCEPT !.ub = "double-free"]
             /\ UNCHANGED <<live, results>>
             /\ rest
        ELSE /\ call' = c
             /\ live' = (live \ {Blk(handle[1], "result.windows")}) \ {handle}
             /\ results' = [h \in DOMAIN results \ {handle} |-> results[h]]
             /\ rest

(***************************************************************************)
(* The caller.  It keeps one price array and one variable for each kind of *)
(* result, passes them to the operations in any order, and may pass NULL   *)
(* for a required pointer, a length above the maximum, any window size and *)
(* any range or index.                                                     *)
(***************************************************************************)
\* the malloc calls, out of the n a call can make, that return NULL: none,
\* one, or two consecutive ones
MallocFailures(n) ==
    {{}} \cup {{k} : k \in 1..n} \cup {{k, k + 1} : k \in 1..(n - 1)}

\* lengths a call is made with: the array's own, or one above the maximum
Lengths == {Len(prices), MAX_ARRAY_SIZE + 1}

CallSpan ==
    /\ gen < MaxCalls
    /\ \E np \in BOOLEAN, no \in BOOLEAN, length \in Lengths, fails \in MallocFailures(3) :
          calculateStockSpan(np, no, length, fails)
    /\ UNCHANGED inProgress

CallBuild ==
    /\ gen < MaxCalls
    /\ \E np \in BOOLEAN, no \in BOOLEAN, length \in Lengths, fails \in MallocFailures(2) :
          buildSegmentTree(np, no, length, fails)
    /\ UNCHANGED inProgress

CallQuery ==
    /\ \E ql \in 0..(Len(prices) + 1), qr \in 0..(Len(prices) + 1) :
          querySegmentTree(tree, ql, qr)
    /\ UNCHANGED inProgress

CallFree == freeSegmentTree(tree) /\ UNCHANGED inProgress

CallAnalyze ==
    /\ gen < MaxCalls
    /\ \E np \in BOOLEAN, no \in BOOLEAN, length \in Lengths,
          windowSize \in 0..(Len(prices) + 1), fails \in MallocFailures(6) :
          analyzeSlidingWindow(np, no, length, windowSize, fails)
    /\ UNCHANGED inProgress

CallGet ==
    /\ \E idx \in 0..(Len(prices) + 1) : getWindowResult(win, idx)
    /\ UNCHANGED inProgress

CallFreeWindow == freeWindowResult(win) /\ UNCHANGED inProgress

\* free(spans) of the caller, as the header of calculateStockSpan requires;
\* the caller's pointer goes out of scope with it
FreeSpans ==
    /\ spans.ptr \in live
    /\ live' = live \ {spans.ptr}
    /\ call' = [NoCall EXCEPT !.op = "freeSpans", !.handle = spans.ptr]
    /\ spans' = [ptr |-> NULL, data |-> <<>>]
    /\ qout' = QueryGarbage
    /\ wout' = WindowGarbage
    /\ err' = ""
    /\ UNCHANGED <<arith, prices, trees, results, gen, tree, win>>
    /\ UNCHANGED inProgress

Next ==
    \/ CallSpan
    \/ CallBuild
    \/ CallQuery
    \/ CallFree
    \/ CallAnalyze
    \/ CallGet
    \/ CallFreeWindow
    \/ FreeSpans

\* the state before the first call, for a price array drawn from inputs
InitWith(inputs, a) ==
    /\ arith = a
    /\ prices \in inputs
    /\ live = {}
    /\ trees = <<>>
    /\ results = <<>>
    /\ gen = 0
    /\ tree = NULL
    /\ win = NULL
    /\ spans = [ptr |-> NULL, data |-> <<>>]
    /\ qout = QueryGarbage
    /\ wout = WindowGarbage
    /\ err = ""
    /\ call = NoCall
    /\ prev = NoPrev
    /\ scan = NoScan
    /\ slide = NoSlide
    /\ readers = [t \in Threads |-> NoQuery]

\* all sequences over vals of length lo..hi
SeqsOf(vals, lo, hi) == UNION {[1..n -> vals] : n \in lo..hi}

\* price arrays of the combined specification: finite prices of either sign,
\* NaN and an infinity
Prices == {Num(-2), Num(3), NaN, PosInf}

Init == InitWith(SeqsOf(Prices, 0, MaxArgLen), "real")

Spec == Init /\ [][Next]_vars

(***************************************************************************)
(* One specification for each component on its own, over more and longer   *)
(* price arrays than the specification of all calls.  Here the caller      *)
(* passes its pointers and the length of its array, and malloc succeeds;   *)
(* the window size, the range and the index remain arbitrary.              *)
(***************************************************************************)
SpanOfArray ==
    /\ gen < MaxCalls
    /\ calculateStockSpan(FALSE, FALSE, Len(prices), {})
    /\ UNCHANGED inProgress

BuildOfArray ==
    /\ gen < MaxCalls
    /\ buildSegmentTree(FALSE, FALSE, Len(prices), {})
    /\ UNCHANGED inProgress

AnalyzeOfArray ==
    /\ gen < MaxCalls
    /\ \E windowSize \in 0..(Len(prices) + 1) :
          analyzeSlidingWindow(FALSE, FALSE, Len(prices), windowSize, {})
    /\ UNCHANGED inProgress

\* the example of stock_span.h
SpanExample == <<Num(100), Num(80), Num(60), Num(70), Num(60), Num(75), Num(85)>>

InitSpan ==
    InitWith(SeqsOf({Num(1), Num(2), Num(3)}, 0, MaxSpanLen) \cup {SpanExample}, "real")

NextSpan == SpanOfArray \/ FreeSpans

SpecSpan == InitSpan /\ [][NextSpan]_vars

InitTree == InitWith(SeqsOf({Num(-2), Num(0), Num(3)}, 1, MaxTreeLen), "real")

NextTree == BuildOfArray \/ CallQuery

SpecTree == InitTree /\ [][NextTree]_vars

\* prices around the two thresholds of classifyPattern (21/20 - 1 = 0.05; 9
\* and 11 lie one tenth of their mean from it), and prices that are zero or
\* negative
InitWin ==
    InitWith(SeqsOf({Num(9), Num(11), Num(20), Num(21)}, 1, MaxWinLen)
                \cup SeqsOf({Num(-20), Num(0), Num(9)}, 1, MaxWinLen), "real")

NextWin == AnalyzeOfArray \/ CallGet

SpecWin == InitWin /\ [][NextWin]_vars

\* In binary arithmetic: a price whose multiples need more than MantBits bits
\* (2^MantBits - 2), a price that absorbs a unit added to it (2^(MantBits+1)),
\* and the unit.
InitFP ==
    InitWith(SeqsOf({Num(1), Num(Pow2(MantBits) - 2), Num(Pow2(MantBits + 1))},
                    1, MaxFpLen), "binary")

SpecFP == InitFP /\ [][NextWin]_vars

(***************************************************************************)
(* Reference values, computed from the caller's array by direct scans in   *)
(* exact rational arithmetic.                                              *)
(***************************************************************************)
(* Concurrent readers.  Each thread runs querySegmentTree on the caller's  *)
(* tree with its own arguments, accumulator and outputs; a step of a       *)
(* thread is the entry of the call with its checks, one iteration of the   *)
(* loop, the computation of the outputs, or the return.  The tree is only  *)
(* read.                                                                   *)
(***************************************************************************)
\* everything but the queries in progress
allButReaders ==
    <<arith, prices, live, trees, results, gen, tree, win, spans, qout, wout, err,
      call, prev, scan, slide>>

\* entry of querySegmentTree: the NULL and range checks, the accumulator
QueryBegin(t) ==
    /\ readers[t] = NoQuery
    /\ tree \in live
    /\ \E ql \in 0..(trees[tree].length - 1), qr \in 0..(trees[tree].length - 1) :
          readers' = [readers EXCEPT ![t] =
              IF InvalidRange(trees[tree], ql, qr)
              THEN [pc |-> "done", handle |-> tree, ql |-> ql, qr |-> qr,
                    ret |-> -2, out |-> QueryGarbage]
              ELSE [pc |-> "loop", handle |-> tree, ql |-> ql, qr |-> qr,
                    s |-> QueryStart(trees[tree], ql, qr)]]
    /\ UNCHANGED allButReaders

\* Seeded fault: the accumulator is a static variable that all calls share.
QueryIterate_SharedResult(t) ==
    /\ readers[t].pc = "loop"
    /\ readers[t].s.left <= readers[t].s.right
    /\ LET n == QueryStep(trees[readers[t].handle].nodes, readers[t].s)
       IN  readers' = [u \in Threads |->
                         IF u = t THEN [readers[t] EXCEPT !.s = n]
                         ELSE IF readers[u].pc = "loop"
                         THEN [readers[u] EXCEPT !.s.result = n.result,
                                                 !.s.first = n.first]
                         ELSE readers[u]]
    /\ UNCHANGED allButReaders

\* one iteration of while (left <= right)
QueryIterate(t) ==
    /\ readers[t].pc = "loop"
    /\ readers[t].s.left <= readers[t].s.right
    /\ readers' = [readers EXCEPT ![t].s =
                      QueryStep(trees[readers[t].handle].nodes, readers[t].s)]
    /\ UNCHANGED allButReaders

\* the loop has ended: the outputs are computed and the call returns 0
QueryFinish(t) ==
    /\ readers[t].pc = "loop"
    /\ readers[t].s.left > readers[t].s.right
    /\ readers' = [readers EXCEPT ![t] =
                      [pc |-> "done", handle |-> readers[t].handle,
                       ql |-> readers[t].ql, qr |-> readers[t].qr,
                       ret |-> 0, out |-> QueryOutputs(readers[t].s.result)]]
    /\ UNCHANGED allButReaders

\* the thread has used the outputs and is ready for its next query
QueryReturn(t) ==
    /\ readers[t].pc = "done"
    /\ readers' = [readers EXCEPT ![t] = NoQuery]
    /\ UNCHANGED allButReaders

\* the one tree that the threads query, built before any of them starts
BuildForReaders ==
    /\ tree = NULL
    /\ buildSegmentTree(FALSE, FALSE, Len(prices), {})
    /\ UNCHANGED inProgress

\* arrays of distinct prices, so that different ranges give different results
InitReaders ==
    InitWith({[k \in 1..n |-> Num(k * k)] : n \in 1..MaxReadLen}, "real")

NextReaders ==
    \/ BuildForReaders
    \/ \E t \in Threads : QueryBegin(t)
    \/ \E t \in Threads : QueryIterate(t)
    \/ \E t \in Threads : QueryFinish(t)
    \/ \E t \in Threads : QueryReturn(t)

SpecReaders == InitReaders /\ [][NextReaders]_vars

(***************************************************************************)
(* Repeated calls.  The caller makes call after call, in any order and     *)
(* with any arguments, keeps every result, and may replace a price that    *)
(* was rejected; prev records the operation and status of the call before  *)
(* the last one.                                                           *)
(***************************************************************************)
Remember ==
    prev' = IF call.op = "correct" THEN prev ELSE [op |-> call.op, ret |-> call.ret]

RetrySpan ==
    /\ gen < MaxRetries
    /\ \E np \in BOOLEAN, length \in Lengths, fails \in {{}, {1}} :
          calculateStockSpan(np, FALSE, length, fails)
    /\ Remember
    /\ UNCHANGED <<scan, slide, readers>>

RetryBuild ==
    /\ gen < MaxRetries
    /\ \E np \in BOOLEAN, length \in Lengths, fails \in {{}, {2}} :
          buildSegmentTree(np, FALSE, length, fails)
    /\ Remember
    /\ UNCHANGED <<scan, slide, readers>>

RetryAnalyze ==
    /\ gen < MaxRetries
    /\ \E np \in BOOLEAN, windowSize \in 0..(Len(prices) + 1), fails \in {{}, {3}} :
          analyzeSlidingWindow(np, FALSE, Len(prices), windowSize, fails)
    /\ Remember
    /\ UNCHANGED <<scan, slide, readers>>

RetryQuery ==
    /\ \E ql \in 0..Len(prices), qr \in 0..Len(prices) : querySegmentTree(tree, ql, qr)
    /\ Remember
    /\ UNCHANGED <<scan, slide, readers>>

RetryGet ==
    /\ \E idx \in 0..Len(prices) : getWindowResult(win, idx)
    /\ Remember
    /\ UNCHANGED <<scan, slide, readers>>

\* the caller replaces a price that is NaN or infinite; the call that was
\* rejected for it becomes the call before the next one
CorrectPrices ==
    /\ \E i \in 1..Len(prices) :
          /\ ~IsFinite(prices[i])
          /\ prices' = [prices EXCEPT ![i] = Num(3)]
    /\ call' = [NoCall EXCEPT !.op = "correct"]
    /\ Remember
    /\ UNCHANGED <<arith, live, trees, results, gen, tree, win, spans, qout, wout,
                   err, scan, slide, readers>>

NextRetry ==
    \/ RetrySpan
    \/ RetryBuild
    \/ RetryAnalyze
    \/ RetryQuery
    \/ RetryGet
    \/ CorrectPrices

InitRetry == InitWith(SeqsOf({Num(-2), Num(3), NaN}, 0, MaxArgLen), "real")

SpecRetry == InitRetry /\ [][NextRetry]_vars

(***************************************************************************)
(* The scan of calculateStockSpan, step by step.  A step is the entry of   *)
(* the call up to the loop, one pop of the inner while loop, the rest of   *)
(* an iteration (span, push, i++), or the exit.  pushes and pops count,    *)
(* for every index, how often it was pushed and popped; after names the    *)
(* step taken last.                                                        *)
(***************************************************************************)
allButScan ==
    <<arith, prices, live, trees, results, gen, tree, win, spans, qout, wout, err,
      call, prev, slide, readers>>

\* entry with valid arguments: the checks pass, spans and the stack exist
ScanBegin ==
    /\ scan = NoScan
    /\ ~InvalidLength(Len(prices))
    /\ ~HasInvalidPrice(prices, Len(prices))
    /\ scan' = [pc |-> "loop", after |-> "entry", i |-> 0,
                stack |-> createStack(Len(prices)), out |-> <<>>,
                pushes |-> [k \in 0..(Len(prices) - 1) |-> 0],
                pops |-> [k \in 0..(Len(prices) - 1) |-> 0]]
    /\ UNCHANGED allButScan

\* Seeded fault: the inner loop pops only strictly smaller prices.
ScanPops_Strict(s) ==
    ~isEmpty(s.stack) /\ Lt(At(prices, peek(s.stack)), At(prices, s.i))

\* !isEmpty(stack) && prices[peek(stack)] <= prices[i]
ScanPops(s) ==
    ~isEmpty(s.stack) /\ Le(At(prices, peek(s.stack)), At(prices, s.i))

\* pop(stack)
ScanPop ==
    /\ scan.pc = "loop"
    /\ scan.i < Len(prices)
    /\ ScanPops(scan)
    /\ scan' = [scan EXCEPT !.stack = pop(scan.stack),
                            !.pops[peek(scan.stack)] = @ + 1,
                            !.after = "pop"]
    /\ UNCHANGED allButScan

\* (*out_spans)[i] = isEmpty(stack) ? i + 1 : i - peek(stack); push(stack, i); i++
ScanPush ==
    /\ scan.pc = "loop"
    /\ scan.i < Len(prices)
    /\ ~ScanPops(scan)
    /\ scan' = [scan EXCEPT
                  !.out = Append(@, IF isEmpty(scan.stack) THEN scan.i + 1
                                    ELSE scan.i - peek(scan.stack)),
                  !.stack = push(scan.stack, scan.i),
                  !.pushes[scan.i] = @ + 1,
                  !.i = @ + 1,
                  !.after = "push"]
    /\ UNCHANGED allButScan

\* i == length: freeStack(stack); return 0
ScanEnd ==
    /\ scan.pc = "loop"
    /\ scan.i = Len(prices)
    /\ scan' = [scan EXCEPT !.pc = "done", !.after = "exit"]
    /\ UNCHANGED allButScan

NextScan == ScanBegin \/ ScanPop \/ ScanPush \/ ScanEnd

\* the call runs on: a step that can be taken is taken
SpecScan == InitSpan /\ [][NextScan]_vars /\ WF_vars(NextScan)

(***************************************************************************)
(* The loop of analyzeSlidingWindow, window by window.  A step is the      *)
(* entry of the call up to the stored first window, one iteration of the   *)
(* slide loop with the window it stores, or the exit.  slide.s holds the   *)
(* locals of the call: i (the next window), sum, sum_sq, the two deques    *)
(* and the windows stored so far.                                          *)
(***************************************************************************)
allButSlide ==
    <<arith, prices, live, trees, results, gen, tree, win, spans, qout, wout, err,
      call, prev, scan, readers>>

\* entry with valid arguments, the first window processed and stored
SlideBegin ==
    /\ slide = NoSlide
    /\ ~HasInvalidPrice(prices, Len(prices))
    /\ \E windowSize \in 1..Len(prices) :
          /\ ~InvalidWindowSize(Len(prices), windowSize)
          /\ slide' = [pc |-> "slide", windowSize |-> windowSize,
                       num_windows |-> Len(prices) - windowSize + 1,
                       s |-> FirstWindow(prices, windowSize)]
    /\ UNCHANGED allButSlide

\* one iteration of for (i = 1; i < num_windows; i++)
SlideNext ==
    /\ slide.pc = "slide"
    /\ slide.s.i < slide.num_windows
    /\ slide' = [slide EXCEPT !.s = SlideStep(prices, slide.windowSize, slide.s)]
    /\ UNCHANGED allButSlide

\* i == num_windows: freeDeque(max_dq); freeDeque(min_dq); return 0
SlideEnd ==
    /\ slide.pc = "slide"
    /\ slide.s.i = slide.num_windows
    /\ slide' = [slide EXCEPT !.pc = "done"]
    /\ UNCHANGED allButSlide

NextSlide == SlideBegin \/ SlideNext \/ SlideEnd

SpecSlide == InitWin /\ [][NextSlide]_vars

(***************************************************************************)
(* analyzeSlidingWindow, one deque operation at a time.  slide holds the   *)
(* position in the function (pc), the loop it is in (phase), out_idx and   *)
(* in_idx, and the locals s as above.  Beside them it records, for each    *)
(* deque, the indices pushed and not yet removed, oldest first (held), and *)
(* whether popBack, popFront, front or back was ever applied to a deque    *)
(* holding nothing (onEmpty).                                              *)
(***************************************************************************)
DequeOf(which) == IF which = "max" THEN slide.s.max_dq ELSE slide.s.min_dq

HeldOf(which) == IF which = "max" THEN slide.held_max ELSE slide.held_min

\* slide with deque which replaced by dq and its record of held indices by h
WithDeque(which, dq, h) ==
    IF which = "max"
    THEN [slide EXCEPT !.s.max_dq = dq, !.held_max = h]
    ELSE [slide EXCEPT !.s.min_dq = dq, !.held_min = h]

\* Seeded fault: the deques are created with capacity windowSize.
DequeBegin_TightDeques ==
    /\ slide = NoSlide
    /\ ~HasInvalidPrice(prices, Len(prices))
    /\ \E windowSize \in 1..Len(prices) :
          /\ ~InvalidWindowSize(Len(prices), windowSize)
          /\ slide' = [pc |-> "first", phase |-> "first",
                       windowSize |-> windowSize,
                       num_windows |-> Len(prices) - windowSize + 1,
                       out_idx |-> 0, in_idx |-> 0,
                       s |-> [i |-> 0, sum |-> Num(0), sum_sq |-> Num(0),
                              max_dq |-> createDeque(windowSize),
                              min_dq |-> createDeque(windowSize),
                              windows |-> <<>>],
                       held_max |-> <<>>, held_min |-> <<>>,
                       onEmpty |-> FALSE]
    /\ UNCHANGED allButSlide

\* entry with valid arguments up to the head of the first loop: both deques
\* created with capacity windowSize + 1, sum = sum_sq = 0.0, i = 0
DequeBegin ==
    /\ slide = NoSlide
    /\ ~HasInvalidPrice(prices, Len(prices))
    /\ \E windowSize \in 1..Len(prices) :
          /\ ~InvalidWindowSize(Len(prices), windowSize)
          /\ slide' = [pc |-> "first", phase |-> "first",
                       windowSize |-> windowSize,
                       num_windows |-> Len(prices) - windowSize + 1,
                       out_idx |-> 0, in_idx |-> 0,
                       s |-> [i |-> 0, sum |-> Num(0), sum_sq |-> Num(0),
                              max_dq |-> createDeque(windowSize + 1),
                              min_dq |-> createDeque(windowSize + 1),
                              windows |-> <<>>],
                       held_max |-> <<>>, held_min |-> <<>>,
                       onEmpty |-> FALSE]
    /\ UNCHANGED allButSlide

\* for (i = 0; i < windowSize; i++) { sum += prices[i]; sum_sq += ...; then
\* the deques take i; after the loop the first window is stored
DequeFirstHead ==
    /\ slide.pc = "first"
    /\ slide' =
          IF slide.s.i < slide.windowSize
          THEN [slide EXCEPT
                  !.pc = "popBackMax",
                  !.in_idx = slide.s.i,
                  !.s.sum = FAdd(slide.s.sum, At(prices, slide.s.i)),
                  !.s.sum_sq = FAdd(slide.s.sum_sq,
                                    FMul(At(prices, slide.s.i),
                                         At(prices, slide.s.i)))]
          ELSE [slide EXCEPT !.pc = "store"]
    /\ UNCHANGED allButSlide

\* for (i = 1; i < num_windows; i++) { out_idx = i - 1; in_idx = i +
\* windowSize - 1; sum and sum_sq updated; after the loop freeDeque of both
\* deques and return 0
DequeSlideHead ==
    /\ slide.pc = "slide"
    /\ slide' =
          IF slide.s.i < slide.num_windows
          THEN LET out_idx == slide.s.i - 1
                   in_idx == slide.s.i + slide.windowSize - 1
               IN  [slide EXCEPT
                      !.pc = "popFrontMax",
                      !.out_idx = out_idx,
                      !.in_idx = in_idx,
                      !.s.sum = FAdd(FSub(slide.s.sum, At(prices, out_idx)),
                                     At(prices, in_idx)),
                      !.s.sum_sq = FAdd(FSub(slide.s.sum_sq,
                                             FMul(At(prices, out_idx),
                                                  At(prices, out_idx))),
                                        FMul(At(prices, in_idx),
                                             At(prices, in_idx)))]
          ELSE [slide EXCEPT !.pc = "done"]
    /\ UNCHANGED allButSlide

\* one test of while (!isEmpty(dq) && front(dq) <= out_idx) and, when it
\* holds, popFront(dq)
DequePopFront ==
    /\ slide.pc \in {"popFrontMax", "popFrontMin"}
    /\ LET which == IF slide.pc = "popFrontMax" THEN "max" ELSE "min"
           dq == DequeOf(which)
           h == HeldOf(which)
       IN  slide' =
              IF ~isEmptyDeque(dq) /\ front(dq) <= slide.out_idx
              THEN [WithDeque(which, popFront(dq),
                              IF h = <<>> THEN h ELSE Tail(h))
                       EXCEPT !.onEmpty = slide.onEmpty \/ h = <<>>]
              ELSE [slide EXCEPT
                      !.pc = IF which = "max" THEN "popFrontMin"
                             ELSE "popBackMax",
                      !.onEmpty = slide.onEmpty
                                    \/ (~isEmptyDeque(dq) /\ h = <<>>)]
    /\ UNCHANGED allButSlide

\* one test of while (!isEmpty(max_dq) && prices[back(max_dq)] <= prices[in])
\* (>= for min_dq) and, when it holds, popBack(dq)
DequePopBack ==
    /\ slide.pc \in {"popBackMax", "popBackMin"}
    /\ LET which == IF slide.pc = "popBackMax" THEN "max" ELSE "min"
           dq == DequeOf(which)
           h == HeldOf(which)
           goes == /\ ~isEmptyDeque(dq)
                   /\ IF which = "max"
                      THEN Le(At(prices, back(dq)), At(prices, slide.in_idx))
                      ELSE Ge(At(prices, back(dq)), At(prices, slide.in_idx))
       IN  slide' =
              IF goes
              THEN [WithDeque(which, popBack(dq),
                              IF h = <<>> THEN h ELSE SubSeq(h, 1, Len(h) - 1))
                       EXCEPT !.onEmpty = slide.onEmpty \/ h = <<>>]
              ELSE [slide EXCEPT
                      !.pc = IF which = "max" THEN "pushMax" ELSE "pushMin",
                      !.onEmpty = slide.onEmpty
                                    \/ (~isEmptyDeque(dq) /\ h = <<>>)]
    /\ UNCHANGED allButSlide

\* pushBack(dq, in_idx); after the one on min_dq the first loop goes to its
\* next i and the slide loop stores the window
DequePushBack ==
    /\ slide.pc \in {"pushMax", "pushMin"}
    /\ LET which == IF slide.pc = "pushMax" THEN "max" ELSE "min"
           pushed == WithDeque(which, pushBack(DequeOf(which), slide.in_idx),
                               Append(HeldOf(which), slide.in_idx))
       IN  slide' =
              IF which = "max" THEN [pushed EXCEPT !.pc = "popBackMin"]
              ELSE IF slide.phase = "first"
              THEN [pushed EXCEPT !.pc = "first", !.s.i = slide.s.i + 1]
              ELSE [pushed EXCEPT !.pc = "store"]
    /\ UNCHANGED allButSlide

\* result->windows[i] filled in from front(max_dq), front(min_dq), sum and
\* sum_sq: window 0 after the first loop, window i in the slide loop
DequeStore ==
    /\ slide.pc = "store"
    /\ LET i == IF slide.phase = "first" THEN 0 ELSE slide.s.i
       IN  slide' = [slide EXCEPT
                       !.pc = "slide",
                       !.phase = "slide",
                       !.s.i = i + 1,
                       !.s.windows = Append(slide.s.windows,
                                            WindowStats(prices, slide.windowSize,
                                                        slide.s, i)),
                       !.onEmpty = \/ slide.onEmpty
                                   \/ slide.held_max = <<>>
                                   \/ slide.held_min = <<>>]
    /\ UNCHANGED allButSlide

NextDeque ==
    \/ DequeBegin
    \/ DequeFirstHead
    \/ DequeSlideHead
    \/ DequePopFront
    \/ DequePopBack
    \/ DequePushBack
    \/ DequeStore

SpecDeque == InitWin /\ [][NextDeque]_vars

(***************************************************************************)
\* the sum of f(prices[k]) for k in lo..hi
RECURSIVE RangeSum(_, _, _)
RangeSum(p, lo, hi) ==
    IF lo > hi THEN Num(0) ELSE QAdd(RangeSum(p, lo, hi - 1), At(p, hi))

RECURSIVE RangeSumSq(_, _, _)
RangeSumSq(p, lo, hi) ==
    IF lo > hi THEN Num(0)
    ELSE QAdd(RangeSumSq(p, lo, hi - 1), QMul(At(p, hi), At(p, hi)))

\* the least and the greatest of prices[lo..hi]
RangeMin(p, lo, hi) ==
    CHOOSE m \in {At(p, k) : k \in lo..hi} : \A k \in lo..hi : Le(m, At(p, k))
RangeMax(p, lo, hi) ==
    CHOOSE m \in {At(p, k) : k \in lo..hi} : \A k \in lo..hi : Ge(m, At(p, k))

\* mean = sum / count and population variance = sumOfSquares / count - mean^2
RangeMean(p, lo, hi) == QDiv(RangeSum(p, lo, hi), Num(hi - lo + 1))
RangeVariance(p, lo, hi) ==
    QSub(QDiv(RangeSumSq(p, lo, hi), Num(hi - lo + 1)),
         QMul(RangeMean(p, lo, hi), RangeMean(p, lo, hi)))

RunLength(p, i) ==
    Cardinality({k \in 1..(i + 1) : \A j \in (i - k + 1)..i : Le(At(p, j), At(p, i))})

C2_SpanIsRunLength ==
    (call.op = "span" /\ call.ret = 0) =>
        /\ Len(spans.data) = Len(prices)
        /\ \A i \in 0..(Len(prices) - 1) : At(spans.data, i) = RunLength(prices, i)
        /\ (prices = SpanExample) => spans.data = <<1, 1, 1, 2, 1, 4, 6>>

\* the spans of the example have been returned
C2_Witness ==
    call.op = "span" /\ call.ret = 0 /\ prices = SpanExample /\ spans.ptr # NULL

(***************************************************************************)
(* C3.  In every result of analyzeSlidingWindow the min and max stored for *)
(* window i are prices of prices[i..i+windowSize-1] and are its least and  *)
(* greatest price, so every price of the window lies within [min, max].    *)
(***************************************************************************)
C3_WindowMinMax ==
    \A h \in DOMAIN results :
        LET r == results[h]
        IN  \A i \in 0..(r.num_windows - 1) :
                LET w == At(r.windows, i)
                    win_idx == i..(i + r.window_size - 1)
                IN  /\ \E j \in win_idx : w.min = At(prices, j)
                    /\ \E j \in win_idx : w.max = At(prices, j)
                    /\ \A j \in win_idx : Le(w.min, At(prices, j))
                                          /\ Le(At(prices, j), w.max)
                    /\ w.min = RangeMin(prices, i, i + r.window_size - 1)
                    /\ w.max = RangeMax(prices, i, i + r.window_size - 1)

\* a result whose window has slid at least twice, the extremes changing
C3_Witness ==
    \E h \in DOMAIN results :
        /\ results[h].window_size >= 2
        /\ results[h].num_windows >= 3
        /\ At(results[h].windows, 0).max # At(results[h].windows, 1).max
        /\ At(results[h].windows, 1).min # At(results[h].windows, 2).min

(***************************************************************************)
(* C4.  Every WindowStats that analyzeSlidingWindow produces satisfies     *)
(* min <= avg <= max, for the first window and for every window reached by *)
(* slide steps.  Checked in binary arithmetic (SpecFP), where avg is the   *)
(* rounded running sum divided by windowSize.                              *)
(***************************************************************************)
C4_MinAvgMax ==
    \A h \in DOMAIN results :
        \A i \in 0..(results[h].num_windows - 1) :
            LET w == At(results[h].windows, i)
            IN  Le(w.min, w.avg) /\ Le(w.avg, w.max)

(***************************************************************************)
(* C5.  A successful analyzeSlidingWindow(prices, length, windowSize)       *)
(* stores exactly num_windows = length - windowSize + 1 records, record i   *)
(* describing the window that starts at position i; on a live result        *)
(* getWindowResult returns 0 exactly when idx < num_windows and then hands  *)
(* out record idx, and for idx >= num_windows it returns -2 and leaves the  *)
(* caller's max, min, avg and pattern as they were.                         *)
(***************************************************************************)
C5_WindowCountAndAccess ==
    /\ \A h \in DOMAIN results :
          LET r == results[h]
          IN  /\ r.num_windows = Len(prices) - r.window_size + 1
              /\ Len(r.windows) = r.num_windows
              /\ \A i \in 0..(r.num_windows - 1) :
                    /\ At(r.windows, i).avg = RangeMean(prices, i, i + r.window_size - 1)
                    /\ At(r.windows, i).min = RangeMin(prices, i, i + r.window_size - 1)
                    /\ At(r.windows, i).max = RangeMax(prices, i, i + r.window_size - 1)
    /\ (call.op = "get" /\ call.handle \in live) =>
          LET r == results[call.handle]
          IN  /\ call.ret = 0 <=> call.idx < r.num_windows
              /\ call.ret = 0 => wout = At(r.windows, call.idx)
              /\ call.idx >= r.num_windows => call.ret = -2 /\ wout = WindowGarbage

C5_Witness ==
    /\ call.op = "get" /\ call.handle \in live
    /\ results[call.handle].num_windows = 3
    /\ results[call.handle].window_size = 2
    /\ call.idx = 3
    /\ call.ret = -2

(***************************************************************************)
(* C6.  The pattern of a window, from its first and last price and its     *)
(* mean and population variance.                                           *)
(***************************************************************************)
\* sqrt(variance) / |mean| > 0.1 for an exact variance and mean
CvExceedsTenth(variance, mean) ==
    IF Lt(variance, Num(0)) THEN FALSE
    ELSE IF mean = Num(0) THEN Gt(variance, Num(0))
    ELSE Gt(QMul(Num(100), variance), QMul(mean, mean))

\* the label that a change percentage and the window's statistics select
PatternOf(changePct, first, last, variance, mean) ==
    IF Gt(changePct, Fin(1, 20)) /\ Gt(last, first) THEN "bullish"
    ELSE IF Gt(changePct, Fin(1, 20)) /\ Lt(last, first) THEN "bearish"
    ELSE IF CvExceedsTenth(variance, mean) THEN "volatile"
    ELSE "stable"

\* |last - first| / first
ChangePctStated(first, last) == FDiv(fabs(FSub(last, first)), first)

\* |(last - first) / first|
ChangePctOfQuotient(first, last) == fabs(FDiv(FSub(last, first), first))

\* every stored window carries the label that its change percentage selects,
\* the percentage taken as stated or as the absolute value of the quotient
WindowsLabelled(asStated) ==
    \A h \in DOMAIN results :
        LET r == results[h]
        IN  \A i \in 0..(r.num_windows - 1) :
                LET first == At(prices, i)
                    last == At(prices, i + r.window_size - 1)
                    changePct == IF asStated THEN ChangePctStated(first, last)
                                 ELSE ChangePctOfQuotient(first, last)
                IN  At(r.windows, i).pattern =
                        PatternOf(changePct, first, last,
                                  RangeVariance(prices, i, i + r.window_size - 1),
                                  RangeMean(prices, i, i + r.window_size - 1))

(***************************************************************************)
(* C6 as stated: changePct = |last - first| / first, for every finite      *)
(* price.  A window whose first price is negative has a negative changePct *)
(* under this reading and could never be bullish or bearish.               *)
(***************************************************************************)
C6_PatternAsStated == WindowsLabelled(TRUE)

(***************************************************************************)
(* C6 amended: changePct = |(last - first) / first|, the absolute value of *)
(* the quotient (+infinity when first = 0 # last, NaN when first = last =  *)
(* 0); then bullish if changePct > 0.05 and last > first, bearish if       *)
(* changePct > 0.05 and last < first, otherwise volatile if                *)
(* sqrt(variance)/|mean| > 0.1 and stable otherwise, all comparisons       *)
(* strict.                                                                 *)
(***************************************************************************)
C6_PatternOfQuotient == WindowsLabelled(FALSE)

C6_Witness ==
    \E h \in DOMAIN results :
        /\ results[h].window_size = 2
        /\ results[h].num_windows = 3
        /\ At(prices, 0) = Num(-20) /\ At(prices, 1) = Num(9)
        /\ At(results[h].windows, 0).pattern = "bullish"
        /\ At(results[h].windows, 1).pattern = "bearish"

(***************************************************************************)
(* C7.  Every call that stays within defined behaviour returns the         *)
(* documented status: -1 for a NULL argument or handle; else -2 for length *)
(* 0 or above MAX_ARRAY_SIZE, windowSize 0 or above length, ql > qr or     *)
(* qr >= n, idx >= num_windows; else -4 for a NaN or infinite price; else  *)
(* -3 when an allocation failed; else 0.  A call rejected with -1, -2 or   *)
(* -4 leaves the caller's spans pointer and tree and window handles as     *)
(* they were, and a rejected query or get leaves its outputs unwritten.    *)
(***************************************************************************)
\* the status that the documented table gives for the last call
DocumentedStatus ==
    LET badLength == call.length = 0 \/ call.length > MAX_ARRAY_SIZE
        badWindow == call.windowSize = 0 \/ call.windowSize > call.length
        badPrice == \E i \in 1..call.length : ~IsFinite(prices[i])
    IN  CASE call.op \in {"span", "build"} ->
                IF call.nullarg THEN -1
                ELSE IF badLength THEN -2
                ELSE IF badPrice THEN -4
                ELSE IF call.failed THEN -3
                ELSE 0
          [] call.op = "analyze" ->
                IF call.nullarg THEN -1
                ELSE IF badLength \/ badWindow THEN -2
                ELSE IF badPrice THEN -4
                ELSE IF call.failed THEN -3
                ELSE 0
          [] call.op = "query" ->
                IF call.handle = NULL THEN -1
                ELSE IF call.ql > call.qr \/ call.qr >= trees[call.handle].length THEN -2
                ELSE 0
          [] call.op = "get" ->
                IF call.handle = NULL THEN -1
                ELSE IF call.idx >= results[call.handle].num_windows THEN -2
                ELSE 0
          [] OTHER -> 0

C7_StatusCodes ==
    /\ [](call.ub = "none" =>
            /\ call.ret = DocumentedStatus
            /\ (call.op = "query" /\ call.ret # 0) => qout = QueryGarbage
            /\ (call.op = "get" /\ call.ret # 0) => wout = WindowGarbage)
    /\ [][(call'.op \in {"span", "build", "analyze"} /\ call'.ret \in {-1, -2, -4})
            => (spans' = spans /\ tree' = tree /\ win' = win)]_vars

C7_Witness ==
    /\ call.op = "query" /\ call.handle \in live
    /\ call.ql = 1 /\ call.qr = 0 /\ Len(prices) = 2
    /\ call.ret = -2

(***************************************************************************)
(* C8.  calculateStockSpan, buildSegmentTree and analyzeSlidingWindow      *)
(* finish every validation check before their first malloc: a call        *)
(* rejected with -1, -2 or -4 has called malloc zero times and the set of  *)
(* live blocks is what it was, and a call that did call malloc had valid   *)
(* arguments and finite prices.                                            *)
(***************************************************************************)
C8_ValidationBeforeAllocation ==
    [][call'.op \in {"span", "build", "analyze"} =>
          /\ call'.ret \in {-1, -2, -4} => (call'.mallocs = 0 /\ live' = live)
          /\ call'.mallocs > 0 =>
                /\ ~call'.nullarg
                /\ call'.length \in 1..MAX_ARRAY_SIZE
                /\ call'.op = "analyze" => call'.windowSize \in 1..call'.length
                /\ \A i \in 1..call'.length : IsFinite(prices[i])]_vars

C8_Witness ==
    /\ call.op = "span" /\ call.ret = -4 /\ call.mallocs = 0
    /\ ~call.nullarg /\ call.length = 2
    /\ IsFinite(prices[1]) /\ isnan(prices[2])
    /\ live = {}

(***************************************************************************)
(* C9.  querySegmentTree and getWindowResult return the invalid-handle     *)
(* status (-1) whenever the handle is NULL or was released by              *)
(* freeSegmentTree / freeWindowResult, and never read released storage.    *)
(***************************************************************************)
C9_ReleasedHandleRejected ==
    (call.op \in {"query", "get"} /\ (call.handle = NULL \/ call.handle \notin live))
        => (call.ret = -1 /\ call.ub = "none")

(***************************************************************************)
(* C10.  querySegmentTree changes no tree: for every handle and every      *)
(* (ql, qr) the nodes, length and tree_size of every tree, the set of live *)
(* blocks and the caller's handle are the same after the call as before;   *)
(* only buildSegmentTree and freeSegmentTree change tree state.            *)
(***************************************************************************)
C10_QueryIsReadOnly ==
    /\ [][call'.op = "query" => (trees' = trees /\ live' = live /\ tree' = tree)]_vars
    /\ [][trees' # trees => call'.op \in {"build", "free"}]_vars

C10_Witness ==
    /\ call.op = "query" /\ call.handle \in live /\ call.ret = 0
    /\ call.ql = 0 /\ call.qr = 1
    /\ trees[call.handle].length = 2
    /\ qout.min # qout.max

(***************************************************************************)
(* C11.  Whatever the interleaving of the steps of the threads that query  *)
(* one built, unreleased tree, every query that has finished returned what *)
(* the same call returns when it runs alone from entry to return: status 0 *)
(* and the minimum, maximum, mean and variance of prices[ql..qr] for a     *)
(* valid range, -2 for an invalid one.                                     *)
(***************************************************************************)
C11_ConcurrentQueries ==
    \A t \in Threads :
        (readers[t].pc = "done" /\ readers[t].handle \in live) =>
            LET r == readers[t]
                h == trees[r.handle]
            IN  IF r.ql <= r.qr /\ r.qr < h.length
                THEN /\ r.ret = 0
                     /\ r.out = QueryOutputs(QueryLoop(h.nodes,
                                                       QueryStart(h, r.ql, r.qr)).result)
                     /\ r.out.min = RangeMin(prices, r.ql, r.qr)
                     /\ r.out.max = RangeMax(prices, r.ql, r.qr)
                     /\ r.out.avg = RangeMean(prices, r.ql, r.qr)
                     /\ r.out.variance = RangeVariance(prices, r.ql, r.qr)
                ELSE r.ret = -2

C11_Witness ==
    /\ readers[1].pc = "done" /\ readers[1].ret = 0
    /\ readers[1].ql = 1 /\ readers[1].qr = 2
    /\ readers[2].pc = "loop" /\ ~readers[2].s.first
    /\ readers[2].s.left <= readers[2].s.right
    /\ readers[2].handle = readers[1].handle
    /\ readers[2].ql = 0 /\ readers[2].qr = 2

(***************************************************************************)
(* C12.  freeSegmentTree and freeWindowResult with a NULL handle change    *)
(* nothing: the heap, the trees, the window results and the caller's       *)
(* variables stay as they are.  Called on a live handle they free the      *)
(* container and its node or window array, so that no block of that handle *)
(* remains allocated, and they free nothing else.                          *)
(***************************************************************************)
C12_FreeReleasesAll ==
    [][call'.op \in {"free", "freeWindow"} =>
          /\ call'.handle = NULL =>
                /\ live' = live /\ trees' = trees /\ results' = results
                /\ tree' = tree /\ win' = win /\ spans' = spans
          /\ call'.handle \in live =>
                /\ \A b \in live' : b[1] # call'.handle[1]
                /\ live' = {b \in live : b[1] # call'.handle[1]}
                /\ call'.handle \notin DOMAIN trees'
                /\ call'.handle \notin DOMAIN results'
                /\ Cardinality(live \ live') = 2]_vars

C12_Witness ==
    /\ call.op = "freeWindow" /\ call.handle # NULL /\ call.ub = "none"
    /\ call.handle \notin live
    /\ win = call.handle
    /\ live = {}

(***************************************************************************)
(* C13.  A successful calculateStockSpan stores one span for each position *)
(* of the input, and 1 <= spans[i] <= i + 1 for every position i.          *)
(***************************************************************************)
C13_SpanBounds ==
    (call.op = "span" /\ call.ret = 0) =>
        /\ Len(spans.data) = call.length
        /\ call.length = Len(prices)
        /\ call.length >= 1
        /\ \A i \in 0..(call.length - 1) :
              1 <= At(spans.data, i) /\ At(spans.data, i) <= i + 1

C13_Witness ==
    /\ call.op = "span" /\ call.ret = 0
    /\ Len(prices) = 4
    /\ At(spans.data, 0) = 1 /\ At(spans.data, 1) = 2
    /\ At(spans.data, 2) = 1 /\ At(spans.data, 3) = 4

(***************************************************************************)
(* C14.  After a successful buildSegmentTree on n prices the node array    *)
(* has exactly 2n entries; the leaf of price i is at index n + i with      *)
(* min = max = sum = price[i], sum_sq = price[i]^2 and count = 1; every    *)
(* internal node k, 1 <= k < n, is the merge of nodes 2k and 2k + 1; the   *)
(* root at index 1 has count n.                                            *)
(***************************************************************************)
\* node is the merge of left and right: the lesser min, the greater max, the
\* sums and the counts added
IsMergeOf(node, left, right) ==
    /\ node.min = (IF Le(left.min, right.min) THEN left.min ELSE right.min)
    /\ node.max = (IF Ge(left.max, right.max) THEN left.max ELSE right.max)
    /\ node.sum = QAdd(left.sum, right.sum)
    /\ node.sum_sq = QAdd(left.sum_sq, right.sum_sq)
    /\ node.count = left.count + right.count

C14_TreeLayout ==
    \A h \in DOMAIN trees :
        LET t == trees[h]
            n == t.length
        IN  /\ n = Len(prices)
            /\ DOMAIN t.nodes = 0..(2 * n - 1)
            /\ t.tree_size = 2 * n
            /\ \A i \in 0..(n - 1) :
                  t.nodes[n + i] = [min |-> At(prices, i), max |-> At(prices, i),
                                    sum |-> At(prices, i),
                                    sum_sq |-> QMul(At(prices, i), At(prices, i)),
                                    count |-> 1]
            /\ \A k \in 1..(n - 1) :
                  IsMergeOf(t.nodes[k], t.nodes[2 * k], t.nodes[2 * k + 1])
            /\ t.nodes[1].count = n

C14_Witness ==
    \E h \in DOMAIN trees :
        /\ trees[h].length = 5
        /\ trees[h].nodes[1].count = 5
        /\ trees[h].nodes[2].count = 3
        /\ trees[h].nodes[5].sum # trees[h].nodes[5].sum_sq
        /\ trees[h].nodes[1].min # trees[h].nodes[1].max

(***************************************************************************)
(* C15.  After any sequence of earlier calls, successful or failed, a call *)
(* with valid arguments returns what the same call returns when it is the  *)
(* first: status 0 unless one of its own allocations fails (-3), and the   *)
(* spans, the tree, the windows or the query outputs that its arguments    *)
(* alone determine.  A call that failed can therefore be made again with   *)
(* corrected arguments and succeeds.                                       *)
(***************************************************************************)
C15_Deterministic ==
    LET validArray == /\ ~call.nullarg
                      /\ call.length \in 1..MAX_ARRAY_SIZE
                      /\ call.length = Len(prices)
                      /\ \A i \in 1..Len(prices) : IsFinite(prices[i])
        status == IF call.failed THEN -3 ELSE 0
    IN  /\ (call.op = "span" /\ validArray) =>
              /\ call.ret = status
              /\ call.ret = 0 => spans.data = SpanScan(prices, call.length)
        /\ (call.op = "build" /\ validArray) =>
              /\ call.ret = status
              /\ call.ret = 0 => trees[tree] = BuildTree(prices, call.length)
        /\ (call.op = "analyze" /\ validArray /\ call.windowSize \in 1..call.length) =>
              /\ call.ret = status
              /\ call.ret = 0 =>
                    results[win] = AnalyzeWindows(prices, call.length, call.windowSize)
        /\ (call.op = "query" /\ call.handle \in live
                /\ call.ql <= call.qr /\ call.qr < Len(prices)) =>
              /\ call.ret = 0
              /\ qout = [min |-> RangeMin(prices, call.ql, call.qr),
                         max |-> RangeMax(prices, call.ql, call.qr),
                         avg |-> RangeMean(prices, call.ql, call.qr),
                         variance |-> RangeVariance(prices, call.ql, call.qr)]
        /\ (call.op = "get" /\ call.handle \in live
                /\ call.idx < results[call.handle].num_windows) =>
              /\ call.ret = 0
              /\ wout = At(AnalyzeWindows(prices, Len(prices),
                                          results[call.handle].window_size).windows,
                           call.idx)

C15_Witness ==
    /\ prev.op = "build" /\ prev.ret = -4
    /\ call.op = "build" /\ call.ret = 0
    /\ Len(prices) = 2

(***************************************************************************)
(* C16.  For every n >= 1 and every valid range [ql, qr] the nodes that    *)
(* the loop of querySegmentTree merges cover every position of [ql, qr]    *)
(* exactly once and no position outside it.  The accumulated count is      *)
(* qr - ql + 1, and on an array that is 3 at one position j and 0          *)
(* elsewhere the accumulated sum counts how often j is covered: 3 if j is  *)
(* in the range, 0 if not.                                                 *)
(***************************************************************************)
\* p is 3 at position j and 0 at every other position
IsIndicator(p, j) ==
    \A k \in 0..(Len(p) - 1) : At(p, k) = (IF k = j THEN Num(3) ELSE Num(0))

C16_QueryTiles ==
    (call.op = "query" /\ call.handle \in live /\ call.ret = 0) =>
        LET t == trees[call.handle]
            acc == QueryLoop(t.nodes, QueryStart(t, call.ql, call.qr)).result
        IN  /\ acc.count = call.qr - call.ql + 1
            /\ qout.avg = QDiv(acc.sum, Num(call.qr - call.ql + 1))
            /\ \A j \in 0..(t.length - 1) :
                  IsIndicator(prices, j) =>
                      acc.sum = (IF call.ql <= j /\ j <= call.qr THEN Num(3) ELSE Num(0))

C16_Witness ==
    /\ call.op = "query" /\ call.handle \in live /\ call.ret = 0
    /\ Len(prices) = 5 /\ IsIndicator(prices, 3)
    /\ call.ql = 1 /\ call.qr = 4
    /\ qout.avg = Fin(3, 4)

(***************************************************************************)
(* C17.  The input positions that the nodes of a built tree aggregate.     *)
(***************************************************************************)
\* the positions of the leaves below node k of a tree on n prices
RECURSIVE Cover(_, _)
Cover(k, n) == IF k >= n THEN {k - n} ELSE Cover(2 * k, n) \cup Cover(2 * k + 1, n)

\* S is a contiguous range of positions
IsRange(S) == S # {} /\ \A j \in S, m \in S : \A x \in j..m : x \in S

\* the sum of the prices (sq = FALSE) or of their squares (sq = TRUE) over S
RECURSIVE SumOver(_, _, _)
SumOver(p, S, sq) ==
    IF S = {} THEN Num(0)
    ELSE LET j == CHOOSE x \in S : TRUE
             v == IF sq THEN QMul(At(p, j), At(p, j)) ELSE At(p, j)
         IN  QAdd(v, SumOver(p, S \ {j}, sq))

\* node holds the aggregate of the prices at the positions S
IsAggregateOf(node, p, S) ==
    /\ \E j \in S : node.min = At(p, j)
    /\ \E j \in S : node.max = At(p, j)
    /\ \A j \in S : Le(node.min, At(p, j)) /\ Le(At(p, j), node.max)
    /\ node.sum = SumOver(p, S, FALSE)
    /\ node.sum_sq = SumOver(p, S, TRUE)
    /\ node.count = Cardinality(S)

\* n is a power of two
IsPowerOfTwo(n) == \E e \in 0..n : Pow2(e) = n

RECURSIVE TotalPops(_, _)
TotalPops(pops, k) == IF k < 0 THEN 0 ELSE pops[k] + TotalPops(pops, k - 1)

StackDiscipline ==
    scan.pc # "idle" =>
        LET n == Len(prices) IN
        /\ \A k \in 0..(n - 1) : scan.pushes[k] = (IF k < scan.i THEN 1 ELSE 0)
        /\ \A k \in 0..(n - 1) : scan.pops[k] <= 1
        /\ scan.stack.top <= n
        /\ scan.stack.top <= scan.stack.capacity
        /\ TotalPops(scan.pops, n - 1) <= n
        /\ scan.stack.top = scan.i - TotalPops(scan.pops, n - 1)
        /\ scan.after = "push" =>
              /\ peek(scan.stack) = scan.i - 1
              /\ \A a \in 0..(scan.stack.top - 1), b \in 0..(scan.stack.top - 1) :
                    a < b => /\ scan.stack.data[a] < scan.stack.data[b]
                             /\ Gt(At(prices, scan.stack.data[a]),
                                   At(prices, scan.stack.data[b]))
        /\ scan.pc = "done" =>
              /\ scan.i = n
              /\ scan.out = SpanScan(prices, n)

C18_StackDiscipline ==
    /\ []StackDiscipline
    /\ (scan.pc = "loop") ~> (scan.pc = "done")

C18_Witness ==
    /\ scan.pc = "loop" /\ scan.after = "push"
    /\ Len(prices) = 5 /\ scan.i = 4
    /\ scan.stack.top = 2
    /\ TotalPops(scan.pops, 4) = 2
    /\ scan.pops[1] = 1 /\ scan.pops[2] = 1

(***************************************************************************)
(* C19.  When the statistics of window i are stored, the max deque holds   *)
(* increasing indices whose prices strictly decrease from front to back,   *)
(* the min deque holds increasing indices whose prices strictly increase,  *)
(* every queued index lies in [i, i + windowSize - 1], neither deque is    *)
(* empty, and the fronts are the positions of the maximum and the minimum  *)
(* of the window.                                                          *)
(***************************************************************************)
\* the indices of a deque from front to back
DequeSeq(dq) ==
    [k \in 1..((dq.back - dq.front + dq.capacity) % dq.capacity) |->
        dq.indices[(dq.front + k - 1) % dq.capacity]]

C19_DequeInvariants ==
    slide.pc # "idle" =>
        LET i == slide.s.i - 1
            hi == i + slide.windowSize - 1
            mx == DequeSeq(slide.s.max_dq)
            mn == DequeSeq(slide.s.min_dq)
        IN  /\ Len(mx) >= 1 /\ Len(mn) >= 1
            /\ \A k \in 1..Len(mx) : i <= mx[k] /\ mx[k] <= hi
            /\ \A k \in 1..Len(mn) : i <= mn[k] /\ mn[k] <= hi
            /\ \A a \in 1..Len(mx), b \in 1..Len(mx) :
                  a < b => mx[a] < mx[b] /\ Gt(At(prices, mx[a]), At(prices, mx[b]))
            /\ \A a \in 1..Len(mn), b \in 1..Len(mn) :
                  a < b => mn[a] < mn[b] /\ Lt(At(prices, mn[a]), At(prices, mn[b]))
            /\ At(prices, mx[1]) = RangeMax(prices, i, hi)
            /\ At(prices, mn[1]) = RangeMin(prices, i, hi)
            /\ ~isEmptyDeque(slide.s.max_dq) /\ ~isEmptyDeque(slide.s.min_dq)

C19_Witness ==
    /\ slide.pc = "slide" /\ slide.windowSize = 3 /\ slide.s.i = 2
    /\ Len(DequeSeq(slide.s.max_dq)) = 3
    /\ Len(DequeSeq(slide.s.min_dq)) = 1
    /\ slide.s.max_dq.front # 0

(***************************************************************************)
(* C20.  After the first window and after every slide step i, sum and      *)
(* sum_sq, updated by subtracting prices[i-1] (and its square) and adding  *)
(* prices[i+windowSize-1] (and its square), equal the sum and the sum of   *)
(* squares of prices[i..i+windowSize-1] computed from scratch, in exact    *)
(* arithmetic, and the stored avg of window i is the mean of that window.  *)
(***************************************************************************)
C20_RunningSums ==
    slide.pc # "idle" =>
        LET i == slide.s.i - 1
            hi == i + slide.windowSize - 1
        IN  /\ slide.s.sum = RangeSum(prices, i, hi)
            /\ slide.s.sum_sq = RangeSumSq(prices, i, hi)
            /\ Len(slide.s.windows) = i + 1
            /\ At(slide.s.windows, i).avg = RangeMean(prices, i, hi)
            /\ slide.pc = "done" =>
                  slide.s.windows = AnalyzeWindows(prices, Len(prices),
                                                   slide.windowSize).windows

C20_Witness ==
    /\ slide.pc = "slide" /\ slide.windowSize = 2 /\ slide.s.i = 3
    /\ Len(prices) = 4
    /\ slide.s.sum = RangeSum(prices, 2, 3)
    /\ slide.s.sum # RangeSum(prices, 1, 2)
    /\ slide.s.sum # RangeSum(prices, 0, 1)

(***************************************************************************)
(* C21.  A call of calculateStockSpan, buildSegmentTree or                 *)
(* analyzeSlidingWindow in which an allocation fails, at whichever of its  *)
(* allocation points, returns -3 with every block it had allocated freed   *)
(* again (the heap is as before the call), leaves the tree and window      *)
(* handles of the caller and the objects behind them untouched, and leaves *)
(* the span pointer null or untouched; -3 is returned for no other reason. *)
(***************************************************************************)
C21_AllocationFailureCleansUp ==
    [][/\ call'.failed =>
            /\ call'.op \in {"span", "build", "analyze"}
            /\ call'.ret = -3
            /\ call'.mallocs >= 1
            /\ live' = live
            /\ tree' = tree /\ trees' = trees
            /\ win' = win /\ results' = results
            /\ spans'.ptr = NULL \/ spans' = spans
       /\ call'.ret = -3 => call'.failed]_vars

C21_Witness ==
    /\ call.op = "analyze" /\ call.failed /\ call.ret = -3
    /\ call.mallocs = 5
    /\ live = {} /\ win = NULL

(***************************************************************************)
(* C22.  In every accepted query on a tree of n leaves, each iteration of  *)
(* the loop of querySegmentTree reads only nodes with an index in          *)
(* 1..2n-1, the right index is at least 1 whenever it is decremented (the  *)
(* unsigned value never wraps below 0), the loop exits with at least one   *)
(* node merged into the result, and it runs at most floor(log2(2n)) + 1    *)
(* iterations.                                                             *)
(***************************************************************************)
\* the states at the head of the loop, the last one being the state at exit
RECURSIVE QueryStates(_, _)
QueryStates(nodes, s) ==
    IF s.left <= s.right
    THEN <<s>> \o QueryStates(nodes, QueryStep(nodes, s))
    ELSE <<s>>

\* the node indices the iteration entered in state s reads
NodesRead(s) ==
    (IF s.left % 2 = 1 THEN {s.left} ELSE {})
        \cup (IF s.right % 2 = 0 THEN {s.right} ELSE {})

FloorLog2(m) == CHOOSE e \in 0..m : Pow2(e) <= m /\ m < Pow2(e + 1)

C22_QueryLoopBounds ==
    (call.op = "query" /\ call.ret = 0) =>
        LET t == trees[call.handle]
            n == t.length
            st == QueryStates(t.nodes, QueryStart(t, call.ql, call.qr))
            iterations == Len(st) - 1
            exit == st[Len(st)]
        IN  /\ n >= 1
            /\ \A k \in 1..iterations :
                  /\ NodesRead(st[k]) \subseteq 1..(2 * n - 1)
                  /\ st[k].right % 2 = 0 => st[k].right >= 1
                  /\ st[k].left >= 1
            /\ \A k \in 1..Len(st) : st[k].left >= 0 /\ st[k].right >= 0
            /\ exit = QueryLoop(t.nodes, QueryStart(t, call.ql, call.qr))
            /\ qout = QueryOutputs(exit.result)
            /\ ~exit.first
            /\ exit.result.count >= 1
            /\ iterations >= 1
            /\ iterations <= FloorLog2(2 * n) + 1

C22_Witness ==
    /\ call.op = "query" /\ call.ret = 0
    /\ call.ql = 0 /\ call.qr = 2
    /\ trees[call.handle].length = 3
    /\ LET t == trees[call.handle]
           st == QueryStates(t.nodes, QueryStart(t, 0, 2))
       IN  /\ Len(st) = 3
           /\ NodesRead(st[1]) = {3}
           /\ NodesRead(st[2]) = {2}
           /\ st[3].left = 1 /\ st[3].right = 0

(***************************************************************************)
(* C23.  At every point of analyzeSlidingWindow each deque has capacity    *)
(* windowSize + 1 and holds at most windowSize indices; its circular       *)
(* content from front to back is exactly the indices pushed and not yet    *)
(* removed, so it tests empty only when it holds nothing (no pushBack      *)
(* makes back equal front); popBack, popFront, front and back are never    *)
(* applied to a deque that holds nothing; and every front read, in the     *)
(* popFront loops and when a window is stored, returns the oldest index    *)
(* pushed and not yet removed.                                             *)
(***************************************************************************)
C23_DequeNeverFull ==
    slide.pc # "idle" =>
        /\ ~slide.onEmpty
        /\ \A which \in {"max", "min"} :
              LET dq == DequeOf(which)
                  h == HeldOf(which)
              IN  /\ dq.capacity = slide.windowSize + 1
                  /\ Len(h) <= slide.windowSize
                  /\ DequeSeq(dq) = h
                  /\ isEmptyDeque(dq) <=> h = <<>>
                  /\ h # <<>> => /\ front(dq) = Head(h)
                                 /\ back(dq) = h[Len(h)]
                  /\ slide.pc = "store" => h # <<>>
                  /\ (which = "max" /\ slide.pc = "popBackMin") =>
                        ~isEmptyDeque(dq) /\ back(dq) = slide.in_idx
                  /\ (which = "min" /\ slide.pc = "store") =>
                        ~isEmptyDeque(dq) /\ back(dq) = slide.in_idx
        /\ slide.pc = "done" =>
              slide.s.windows = AnalyzeWindows(prices, Len(prices),
                                               slide.windowSize).windows

\* a deque that holds windowSize indices, its back wrapped around to slot 0,
\* in the slide loop
C23_Witness ==
    /\ slide.pc = "store" /\ slide.phase = "slide"
    /\ slide.windowSize = 2
    /\ Len(slide.held_max) = 2
    /\ slide.s.max_dq.back = 0
    /\ slide.s.max_dq.front = 1
    /\ ~isEmptyDeque(slide.s.max_dq)

====
